---- MODULE Spec2Model ----
(***************************************************************************)
(* Model of the Kafka consumers and producers of the miscalibrated         *)
(* ingestion pipeline:                                                     *)
(*   backend/kafka/consumers/markets_consumer.py                           *)
(*   backend/kafka/consumers/news_consumer.py                              *)
(*   backend/kafka/producers/kalshi_producer.py                            *)
(*   backend/kafka/producers/polymarket_producer.py                        *)
(*   backend/kafka/producers/news_producer.py                              *)
(* of the Edge and User tables (backend/app/models) with the detector and  *)
(* dispatcher that work on them, of backend/app/auth/middleware.py, and   *)
(* of the cached series lookup of model/scripts/scrapeAllCategories.py     *)
(* and model/scripts/listCategories.py.                                    *)
(* Python values are tagged records; an evaluation that can raise yields   *)
(* either [ok |-> TRUE, v |-> value] or [ok |-> FALSE, exc |-> name].      *)
(* Floats are exact rationals [num, den] in lowest terms: every float the  *)
(* model builds is a short decimal or a multiple of 1/200, on which        *)
(* Python's correctly rounded parse and division agree with the rational.  *)
(***************************************************************************)
EXTENDS Integers, Sequences, FiniteSets, TLC

VARIABLES
    proc,        \* which consumer process this run is: "markets" or "news"
    log,         \* event log: topic -> sequence of message payloads (one partition each)
    committed,   \* broker: committed offset of the consumer group, per topic
    pending,     \* per topic: offset of the last commit request sent (unsettled while > committed)
    position,    \* consumer: next offset to fetch, per topic (in-memory)
    pc,          \* control location of run()
    running,     \* the module-level shutdown flag
    msg,         \* the message returned by the last poll(): [topic, offset]
    raw,         \* markets: decoded JSON (raw); news: decoded JSON (article)
    normalized,  \* markets: result of normalize_*
    chunks,      \* news: chunks of the current article still to embed
    exc,         \* exception that ended run(), "none" if none
    markets,     \* the markets table: sequence of rows
    upsertCount, \* history: per topic and message, the number of upsert_market calls
    lastUpsert,  \* history: the last upsert_market call [topic, offset, rec, after]
    storeCalls,  \* history: the store_chunk calls made [offset, url, chunk]
    failed,      \* history: the chunks of the article in hand that embed_text failed on
    article_chunks, \* the article_chunks table: sequence of rows [url, chunk]
    restarts,    \* number of restarts of the process so far (bounded)
    nplatform,   \* normalizer harness: platform of the payload under test
    nraw,        \* normalizer harness: the decoded JSON handed to the normalizer
    nres,        \* normalizer harness: outcome of the call, or "pending"
    adapter,     \* producer: which producer process this is
    feed,        \* producer: what the upstream API lists, as a sequence of items
    ppc,         \* producer: control location of run()
    qi,          \* producer: index of the search query being polled (news)
    cycle,       \* producer: number of the poll cycle (iteration of while True)
    batch,       \* producer: fetched records still to produce in this cycle
    queue,       \* producer: librdkafka's queue of produced, unacknowledged records
    plog,        \* broker: per key, the last record written to the topic partition
    nproduced,   \* producer: number of produce() calls made so far
    lastFetch,   \* producer: outcome of the last fetch
    sleepFor,    \* producer: seconds of the time.sleep() being taken or last taken
    pdeath,      \* producer: what ended the process, "none" while it lives
    ctext,       \* chunk_text harness: length of the text
    cres,        \* chunk_text harness: the chunks returned, or "pending"
    edges,       \* the edges table: sequence of Edge rows, id = position
    lastDetect,  \* history: the last <<market_id, yes_price, model_probability>> detected on
    disp,        \* alert dispatcher: its position and the transient record of its batch
    sent,        \* history: notifications delivered per <<edge id, user>>
    areq,        \* auth: the request [token, fetch], fetch being what the JWKS endpoint does
    jwks_cache,  \* auth: the module-level _jwks_cache
    ares,        \* auth: outcome of verify_token, or "pending"
    ures,        \* auth: outcome of get_current_user_id, or "pending"
    series_cache,\* scraping tool: the module-level _series_cache
    lookups,     \* history: the /series requests made, with their outcomes
    cret         \* scraping tool: the last call of get_category and its result

normVars == <<nplatform, nraw, nres>>

producerVars == <<adapter, feed, ppc, qi, cycle, batch, queue, plog, nproduced,
                  lastFetch, sleepFor, pdeath>>

chunkVars == <<ctext, cres>>

edgeVars == <<edges, lastDetect, disp, sent>>

authVars == <<areq, jwks_cache, ares, ures>>

catVars == <<series_cache, lookups, cret>>

vars == <<proc, log, committed, pending, position, pc, running, msg, raw,
          normalized, chunks, exc, markets, upsertCount, lastUpsert, storeCalls, failed, article_chunks,
          restarts, normVars, producerVars, chunkVars, edgeVars, authVars, catVars>>

consumerVars == <<proc, log, committed, pending, position, pc, running, msg,
                  raw, normalized, chunks, exc, markets, upsertCount, lastUpsert, storeCalls, failed, article_chunks, restarts>>

harnessVars == <<normVars, producerVars, chunkVars, edgeVars, authVars, catVars>>

----------------------------------------------------------------------------
(* Bounds *)

MaxStrLen  == 3   \* longest decimal string handed to float()
MaxLog     == 2   \* messages in the event log, all topics together
MaxRestarts == 1  \* restarts of the consumer process by its supervisor
MaxLiveLog == 1   \* messages in the event log of the fair runs (SpecLive)
MaxCycles  == 2   \* poll cycles of a producer
NumQueries == 2   \* search queries the news producer polls per cycle
MaxTextLen == 6000 \* characters of the text handed to chunk_text

----------------------------------------------------------------------------
(* JSON / Python values *)

JNull      == [t |-> "null"]
JBig       == [t |-> "bigint"]            \* an int too large for a float
JBool(b)   == [t |-> "bool", b |-> b]
JInt(n)    == [t |-> "int", n |-> n]
JFloat(n, d) == [t |-> "float", num |-> n, den |-> d]
JStr(s)    == [t |-> "str", s |-> s]      \* s: sequence of characters
JText(n)   == [t |-> "text", len |-> n]   \* a str of n characters, n > 0, content abstracted
JArr(a)    == [t |-> "arr", a |-> a]
JObj(o)    == [t |-> "obj", o |-> o]      \* o: function from the present keys to values

Ok(v)      == [ok |-> TRUE, v |-> v]
Raise(e)   == [ok |-> FALSE, exc |-> e]

RECURSIVE Gcd(_, _)
Gcd(a, b) == IF b = 0 THEN a ELSE Gcd(b, a % b)

Abs(n) == IF n < 0 THEN -n ELSE n

\* the float n/d (d > 0) in lowest terms
Rat(n, d) ==
    LET g == Gcd(Abs(n), d)
    IN  JFloat(n \div g, d \div g)

\* Python: x[key] for a str key
Subscript(x, key) ==
    CASE x.t = "obj" -> IF key \in DOMAIN x.o THEN Ok(x.o[key]) ELSE Raise("KeyError")
      [] OTHER       -> Raise("TypeError")

\* Python: x.get(key, default); only dict has .get
HasGet(x) == x.t = "obj"
Get(x, key, default) == IF key \in DOMAIN x.o THEN x.o[key] ELSE default

\* Python: x[0]
Index0(x) ==
    CASE x.t = "arr"  -> IF Len(x.a) = 0 THEN Raise("IndexError") ELSE Ok(x.a[1])
      [] x.t = "str"  -> IF Len(x.s) = 0 THEN Raise("IndexError") ELSE Ok(JStr(<<x.s[1]>>))
      [] x.t = "text" -> Ok(JText(1))
      [] x.t = "obj"  -> Raise("KeyError")
      [] OTHER        -> Raise("TypeError")

IsReal(x) == x.t \in {"int", "bool", "float"}
NumOf(x) == CASE x.t = "int" -> x.n [] x.t = "bool" -> (IF x.b THEN 1 ELSE 0) [] x.t = "float" -> x.num
DenOf(x) == IF x.t = "float" THEN x.den ELSE 1

\* Python: x + y
Add(x, y) ==
    CASE x.t \in {"int", "bool"} /\ y.t \in {"int", "bool"} -> Ok(JInt(NumOf(x) + NumOf(y)))
      [] IsReal(x) /\ IsReal(y) ->
            Ok(Rat(NumOf(x) * DenOf(y) + NumOf(y) * DenOf(x), DenOf(x) * DenOf(y)))
      [] x.t \in {"int", "bool", "bigint"} /\ y.t \in {"int", "bool", "bigint"} -> Ok(JBig)
      [] (x.t = "bigint" /\ y.t = "float") \/ (x.t = "float" /\ y.t = "bigint") ->
            Raise("OverflowError")
      [] x.t = "str" /\ y.t = "str" -> Ok(JStr(x.s \o y.s))
      [] x.t = "text" /\ y.t = "text" -> Ok(JText(x.len + y.len))
      [] x.t = "text" /\ y.t = "str" -> Ok(JText(x.len + Len(y.s)))
      [] x.t = "str" /\ y.t = "text" -> Ok(JText(Len(x.s) + y.len))
      [] x.t = "arr" /\ y.t = "arr" -> Ok(JArr(x.a \o y.a))
      [] OTHER -> Raise("TypeError")

\* Python: x / 200
Div200(x) ==
    CASE IsReal(x)      -> Ok(Rat(NumOf(x), DenOf(x) * 200))
      [] x.t = "bigint" -> Raise("OverflowError")
      [] OTHER          -> Raise("TypeError")

Digits == {"0", "1", "5"}
DigitVal(c) == CASE c = "0" -> 0 [] c = "1" -> 1 [] c = "5" -> 5

RECURSIVE DigitsVal(_)
DigitsVal(s) == IF Len(s) = 0 THEN 0
                ELSE 10 * DigitsVal(SubSeq(s, 1, Len(s) - 1)) + DigitVal(s[Len(s)])

RECURSIVE Pow10(_)
Pow10(k) == IF k = 0 THEN 1 ELSE 10 * Pow10(k - 1)

\* Python: float(s) for a str s: [-] digits [. [digits]]  |  [-] . digits
ParseFloat(s) ==
    LET neg   == Len(s) > 0 /\ s[1] = "-"
        body  == IF neg THEN Tail(s) ELSE s
        dots  == {i \in 1..Len(body) : body[i] = "."}
        good  == /\ \A i \in 1..Len(body) : body[i] \in Digits \cup {"."}
                 /\ Cardinality(dots) <= 1
                 /\ Len(body) - Cardinality(dots) >= 1
        p     == IF dots = {} THEN Len(body) + 1 ELSE CHOOSE i \in dots : TRUE
        whole == SubSeq(body, 1, p - 1)
        frac  == SubSeq(body, p + 1, Len(body))
        mag   == DigitsVal(whole \o frac)
    IN  IF good THEN Ok(Rat(IF neg THEN -mag ELSE mag, Pow10(Len(frac))))
        ELSE Raise("ValueError")

\* Python: float(x)
ToFloat(x) ==
    CASE x.t = "str"    -> ParseFloat(x.s)
      [] x.t = "text"   -> Raise("ValueError")
      [] IsReal(x)      -> Ok(Rat(NumOf(x), DenOf(x)))
      [] x.t = "bigint" -> Raise("OverflowError")
      [] OTHER          -> Raise("TypeError")

\* Python truth value
Truthy(x) ==
    CASE x.t = "null"   -> FALSE
      [] x.t = "bool"   -> x.b
      [] x.t = "int"    -> x.n # 0
      [] x.t = "float"  -> x.num # 0
      [] x.t = "str"    -> Len(x.s) > 0
      [] x.t = "arr"    -> Len(x.a) > 0
      [] x.t = "obj"    -> DOMAIN x.o # {}
      [] OTHER          -> TRUE

----------------------------------------------------------------------------
(* markets_consumer.py: the normalizers.  Outcome of a call:               *)
(*   [k |-> "ret", v |-> record], [k |-> "none"], [k |-> "raise", exc]     *)

Ret(v)     == [k |-> "ret", v |-> v]
RetNone    == [k |-> "none"]
Escapes(e) == [k |-> "raise", exc |-> e]

\* try: <body> except <caught>: log.warning(...); return None
TryExcept(body, caught) ==
    IF body.ok THEN Ret(body.v)
    ELSE IF body.exc \in caught THEN RetNone ELSE Escapes(body.exc)

normalize_kalshi(r) ==
    LET ticker == Subscript(r, "ticker")
        sum    == Add(Get(r, "yes_bid", JInt(0)), Get(r, "yes_ask", JInt(0)))
        price  == IF sum.ok THEN Div200(sum.v) ELSE sum
        body   == IF ~ticker.ok THEN ticker
                  ELSE IF ~price.ok THEN price
                  ELSE Ok([platform    |-> "kalshi",
                           external_id |-> ticker.v,
                           title       |-> Get(r, "title", JStr(<<>>)),
                           category    |-> Get(r, "category", JStr(<<>>)),
                           close_time  |-> Get(r, "close_time", JNull),
                           yes_price   |-> price.v,
                           volume      |-> Get(r, "volume", JInt(0)),
                           is_open     |-> JBool(Get(r, "status", JNull) = JStr(<<"o", "p", "e", "n">>))])
    IN  TryExcept(body, {"KeyError", "TypeError"})

normalize_polymarket(r) ==
    LET first  == Index0(Get(r, "outcomePrices", JArr(<<JStr(<<"0">>)>>)))
        price  == IF first.ok THEN ToFloat(first.v) ELSE first
        volume == ToFloat(Get(r, "volume", JInt(0)))
        body   == IF ~HasGet(r) THEN Raise("AttributeError")
                  ELSE IF ~price.ok THEN price
                  ELSE IF ~volume.ok THEN volume
                  ELSE Ok([platform    |-> "polymarket",
                           external_id |-> Get(r, "conditionId", Get(r, "id", JStr(<<>>))),
                           title       |-> Get(r, "question", Get(r, "title", JStr(<<>>))),
                           category    |-> Get(r, "category", JStr(<<>>)),
                           close_time  |-> Get(r, "endDate", JNull),
                           yes_price   |-> price.v,
                           volume      |-> volume.v,
                           is_open     |-> Get(r, "active", JBool(FALSE))])
    IN  TryExcept(body, {"KeyError", "TypeError", "ValueError"})

----------------------------------------------------------------------------
(* Inputs of the normalizer harness: decoded JSON values of every kind.    *)

Absent == [t |-> "absent"]      \* marks a key the object does not have

\* the JSON object holding the keys of f whose value is not Absent
MkObj(f) == JObj([k \in {x \in DOMAIN f : f[x] # Absent} |-> f[k]])

EmptyObj == JObj([k \in {} |-> JNull])

SeqsUpTo(S, n) == UNION {[1..k -> S] : k \in 0..n}

Alphabet == Digits \cup {".", "-", "x"}
DecimalStrings == SeqsUpTo(Alphabet, MaxStrLen)

NonObjects == {JNull, JInt(7), JBool(TRUE), JFloat(1, 2), JBig,
               JStr(<<>>), JStr(<<"A">>), JArr(<<>>), JArr(<<JInt(1)>>)}

CentVals == {Absent, JNull, JBool(TRUE), JInt(0), JInt(40), JInt(50), JInt(100),
             JInt(150), JInt(-10), JFloat(81, 2), JBig, JStr(<<"5">>), JArr(<<>>)}

KalshiObjects ==
    {MkObj([ticker |-> tk, yes_bid |-> b, yes_ask |-> a, status |-> st]) :
        tk \in {Absent, JNull, JStr(<<>>), JStr(<<"A">>)},
        b \in CentVals, a \in CentVals,
        st \in {Absent, JStr(<<"o", "p", "e", "n">>)}}

PriceLists ==
    {Absent, JNull, EmptyObj, JInt(1), JArr(<<>>), JStr(<<>>), JStr(<<"1", ".", "5">>),
     JArr(<<JNull>>), JArr(<<JInt(1)>>), JArr(<<JInt(2)>>), JArr(<<JBig>>),
     JArr(<<JFloat(3, 2)>>), JArr(<<JStr(<<"0", ".", "5">>), JStr(<<"0", ".", "5">>)>>)}
    \cup {JArr(<<JStr(s)>>) : s \in DecimalStrings}

PolymarketObjects ==
    {MkObj([conditionId |-> c, id |-> i, outcomePrices |-> op, volume |-> v]) :
        c \in {Absent, JNull, JStr(<<"C">>)},
        i \in {Absent, JStr(<<"I">>)},
        op \in PriceLists,
        v \in {Absent, JNull, JInt(10), JBig, JStr(<<"5">>), JStr(<<"x">>)}}

NormInputs(platform) ==
    NonObjects \cup (IF platform = "kalshi" THEN KalshiObjects ELSE PolymarketObjects)

Pending == [k |-> "pending"]
Idle    == [k |-> "idle"]

----------------------------------------------------------------------------
(* The event log and the payloads published to it.  A payload is the value *)
(* of a Kafka message: bytes that do not decode, no value at all, or the   *)
(* UTF-8 JSON text of a value j.                                           *)

TOPICS == {"kalshi.markets", "polymarket.markets"}     \* markets_consumer.TOPICS
TOPIC  == "news.feed"                                  \* news_consumer.TOPIC
AllTopics == TOPICS \cup {TOPIC}

Subscribed(p) == IF p = "markets" THEN TOPICS ELSE {TOPIC}

CHUNK_SIZE == 2000

BadUtf8   == [k |-> "bytes", why |-> "UnicodeDecodeError"]
BadJson   == [k |-> "bytes", why |-> "JSONDecodeError"]
NoValue   == [k |-> "novalue"]
Json(j)   == [k |-> "json", j |-> j]

\* json.loads(msg.value().decode("utf-8"))
Decode(payload) ==
    CASE payload.k = "json"    -> Ok(payload.j)
      [] payload.k = "bytes"   -> Raise(payload.why)
      [] payload.k = "novalue" -> Raise("AttributeError")

KalshiA1 == MkObj([ticker |-> JStr(<<"A">>), yes_bid |-> JInt(40), yes_ask |-> JInt(50),
                   status |-> JStr(<<"o", "p", "e", "n">>)])
KalshiA2 == MkObj([ticker |-> JStr(<<"A">>), yes_bid |-> JInt(60), yes_ask |-> JInt(70),
                   status |-> Absent])
KalshiNoTicker == MkObj([ticker |-> Absent, yes_bid |-> JInt(40), yes_ask |-> JInt(50),
                         status |-> Absent])

PolyC == MkObj([conditionId |-> JStr(<<"C">>), id |-> Absent,
                outcomePrices |-> JArr(<<JStr(<<"0", ".", "5">>), JStr(<<"0", ".", "5">>)>>),
                volume |-> JInt(10)])
PolyNoId == MkObj([conditionId |-> Absent, id |-> Absent,
                   outcomePrices |-> JArr(<<JStr(<<"0", ".", "5">>)>>), volume |-> Absent])
PolyNoPrices == MkObj([conditionId |-> JStr(<<"C">>), id |-> Absent,
                       outcomePrices |-> JArr(<<>>), volume |-> Absent])
PolyBadPrice == MkObj([conditionId |-> JStr(<<"C">>), id |-> Absent,
                       outcomePrices |-> JArr(<<JStr(<<"x">>)>>), volume |-> Absent])

ArticleLong == MkObj([url |-> JStr(<<"U">>), title |-> JStr(<<"T">>), content |-> JText(2500),
                      source |-> MkObj([name |-> JStr(<<"S">>)])])
ArticleNoContent == MkObj([url |-> JStr(<<"U">>), title |-> JStr(<<"T">>), content |-> Absent,
                           source |-> Absent])
ArticleNullSource == MkObj([url |-> JStr(<<"V">>), title |-> JStr(<<"T">>), content |-> JText(100),
                            source |-> JNull])
ArticleNullTitle == MkObj([url |-> JNull, title |-> JNull, content |-> JText(100),
                           source |-> Absent])

Payloads(topic) ==
    CASE topic = "kalshi.markets" ->
            {BadJson, NoValue, Json(KalshiA1), Json(KalshiA2), Json(KalshiNoTicker)}
      [] topic = "polymarket.markets" ->
            {BadUtf8, Json(JArr(<<>>)), Json(PolyC), Json(PolyNoId), Json(PolyNoPrices),
             Json(PolyBadPrice)}
      [] topic = "news.feed" ->
            {BadJson, BadUtf8, Json(JStr(<<"x">>)), Json(ArticleLong), Json(ArticleNoContent),
             Json(ArticleNullSource), Json(ArticleNullTitle)}

NoMsg == [topic |-> "none", offset |-> 0]
NoUpsert == [topic |-> "none"]
Payload(m) == log[m.topic][m.offset + 1]

----------------------------------------------------------------------------
(* markets_consumer.py *)

\* a plain INSERT in place of the upsert
upsert_market_insert(table, n) == Append(table, n)

\* upsert_market(normalized): the body only logs; the table is not written
upsert_market(table, n) == table

\* the commit without the write
AfterNormalize_skip_upsert(n) == "commit"

\* the write without the test of the normalizer's result
AfterNormalize_always_upsert(n) == "upsert"

\* line 178: if normalized: upsert_market(normalized)
AfterNormalize(n) == IF n.k = "ret" THEN "upsert" ELSE "commit"

\* an except clause that forgets UnicodeDecodeError
DecodeCaught_json_only == {"JSONDecodeError"}

\* line 165: except (json.JSONDecodeError, UnicodeDecodeError)
DecodeCaught == {"JSONDecodeError", "UnicodeDecodeError"}

\* news_consumer.py line 179: except (json.JSONDecodeError, UnicodeDecodeError)
NewsDecodeCaught == {"JSONDecodeError", "UnicodeDecodeError"}

\* consumer.commit(message=msg) commits the offset after the message
CommitOffset(m) == m.offset + 1

\* an exception leaves the try block of run(): finally closes the consumer
Closes(e) ==
    /\ pc' = "closed"
    /\ exc' = e

harnessIdle == UNCHANGED harnessVars

\* no producer process in this run
producerOff ==
    /\ adapter = "none"
    /\ feed = <<>>
    /\ ppc = "off"
    /\ qi = 1
    /\ cycle = 0
    /\ batch = <<>>
    /\ queue = <<>>
    /\ plog = <<>>
    /\ nproduced = 0
    /\ lastFetch = "none"
    /\ sleepFor = 0
    /\ pdeath = "none"

\* no chunk_text call in this run
chunkOff ==
    /\ ctext = 0
    /\ cres = Idle

\* the dispatcher between two batches: nothing in hand
DispIdle == [pc |-> "idle", edge |-> 0, done |-> {}, gaveUp |-> {}, retries |-> 0]

NoDetect == <<0, 0, 0>>

\* no edge detection, no alert dispatch in this run
edgeOff ==
    /\ edges = <<>>
    /\ lastDetect = NoDetect
    /\ disp = DispIdle
    /\ sent = <<>>

\* no request to authenticate in this run
authOff ==
    /\ areq = Idle
    /\ jwks_cache = "None"
    /\ ares = Idle
    /\ ures = Idle

catOff ==
    /\ series_cache = <<>>
    /\ lookups = <<>>
    /\ cret = Idle

\* a consumer that ignores the offsets of its group
ResumeAt_earliest(offsets) == [t \in AllTopics |-> 0]

\* where a consumer of the group starts to fetch, given the offsets the
\* broker holds for the group (auto.offset.reset applies where it holds 0)
ResumeAt(offsets) == offsets

\* run(), lines 136-141: install the handlers, create the consumer, subscribe;
\* the group resumes each partition at its committed offset (earliest if none)
Start ==
    /\ pc = "start"
    /\ pc' = "loop"
    /\ position' = ResumeAt(committed)
    /\ UNCHANGED <<proc, log, committed, pending, running, msg, raw, normalized,
                   chunks, exc, markets, upsertCount, lastUpsert, storeCalls, failed, article_chunks, restarts>>
    /\ harnessIdle

\* handle_signal
HandleSignal ==
    /\ pc \notin {"start", "closed", "down"}
    /\ running
    /\ running' = FALSE
    /\ UNCHANGED <<proc, log, committed, pending, position, pc, msg, raw, normalized,
                   chunks, exc, markets, upsertCount, lastUpsert, storeCalls, failed, article_chunks, restarts>>
    /\ harnessIdle

\* a loop that never tests the shutdown flag
WhileRunning_forever(flag) == TRUE

\* line 144: while running
WhileRunning(flag) == flag

\* line 144 true: enter the body
LoopGo ==
    /\ pc = "loop"
    /\ WhileRunning(running)
    /\ pc' = "poll"
    /\ UNCHANGED <<proc, log, committed, pending, position, running, msg, raw,
                   normalized, chunks, exc, markets, upsertCount, lastUpsert, storeCalls, failed, article_chunks, restarts>>
    /\ harnessIdle

\* line 144 false, then finally: consumer.close()
LoopExit ==
    /\ pc = "loop"
    /\ ~WhileRunning(running)
    /\ Closes("none")
    /\ UNCHANGED <<proc, log, committed, pending, position, running, msg, raw,
                   normalized, chunks, markets, upsertCount, lastUpsert, storeCalls, failed, article_chunks, restarts>>
    /\ harnessIdle

\* lines 147-150: poll() timed out
PollNone ==
    /\ pc = "poll"
    /\ pc' = "loop"
    /\ UNCHANGED <<proc, log, committed, pending, position, running, msg, raw,
                   normalized, chunks, exc, markets, upsertCount, lastUpsert, storeCalls, failed, article_chunks, restarts>>
    /\ harnessIdle

\* lines 152-159: poll() returned a PARTITION_EOF event
PollEof ==
    /\ pc = "poll"
    /\ \E t \in Subscribed(proc) : position[t] = Len(log[t])
    /\ pc' = "loop"
    /\ UNCHANGED <<proc, log, committed, pending, position, running, msg, raw,
                   normalized, chunks, exc, markets, upsertCount, lastUpsert, storeCalls, failed, article_chunks, restarts>>
    /\ harnessIdle

\* lines 152-158: poll() returned another error event: raise KafkaException
PollError ==
    /\ pc = "poll"
    /\ Closes("KafkaException")
    /\ UNCHANGED <<proc, log, committed, pending, position, running, msg, raw,
                   normalized, chunks, markets, upsertCount, lastUpsert, storeCalls, failed, article_chunks, restarts>>
    /\ harnessIdle

\* the error codes a polled event can carry: the end of a partition, and
\* one that stands for all the others
PARTITION_EOF == "_PARTITION_EOF"
ErrorCodes == {PARTITION_EOF, "_TRANSPORT"}

\* the event poll() returns in place of a message: msg.error() is its code
ErrEvent(t, code) == [topic |-> t, offset |-> position[t], error |-> code]
IsError(m) == "error" \in DOMAIN m

\* line 147: poll() returned a PARTITION_EOF event; the event is kept in msg
PollEofEvent ==
    /\ pc = "poll"
    /\ \E t \in Subscribed(proc) :
          /\ position[t] = Len(log[t])
          /\ msg' = ErrEvent(t, PARTITION_EOF)
    /\ pc' = "error"
    /\ UNCHANGED <<proc, log, committed, pending, position, running, raw,
                   normalized, chunks, exc, markets, upsertCount, lastUpsert, storeCalls, failed, article_chunks, restarts>>
    /\ harnessIdle

\* line 147: poll() returned an event carrying another error, kept in msg
PollErrorEvent ==
    /\ pc = "poll"
    /\ \E t \in Subscribed(proc), code \in ErrorCodes \ {PARTITION_EOF} :
          msg' = ErrEvent(t, code)
    /\ pc' = "error"
    /\ UNCHANGED <<proc, log, committed, pending, position, running, raw,
                   normalized, chunks, exc, markets, upsertCount, lastUpsert, storeCalls, failed, article_chunks, restarts>>
    /\ harnessIdle

\* lines 155-159: PARTITION_EOF is logged and the loop continues; any other
\* error is raised as KafkaException
ErrorBranch_all_eof(code) == "continue"

ErrorBranch(code) == IF code = PARTITION_EOF THEN "continue" ELSE "raise"

\* lines 152-159: if msg.error(): ..., for the event kept in msg
MsgError ==
    /\ pc = "error"
    /\ IF ErrorBranch(msg.error) = "continue"
          THEN pc' = "loop" /\ exc' = exc
          ELSE Closes("KafkaException")
    /\ msg' = NoMsg
    /\ UNCHANGED <<proc, log, committed, pending, position, running, raw,
                   normalized, chunks, markets, upsertCount, lastUpsert, storeCalls, failed, article_chunks, restarts>>
    /\ harnessIdle

\* line 147: poll() returned the next message of a subscribed partition
PollMsg ==
    /\ pc = "poll"
    /\ \E t \in Subscribed(proc) :
          /\ position[t] < Len(log[t])
          /\ msg' = [topic |-> t, offset |-> position[t]]
          /\ position' = [position EXCEPT ![t] = @ + 1]
    /\ pc' = "decode"
    /\ UNCHANGED <<proc, log, committed, pending, running, raw, normalized, chunks,
                   exc, markets, upsertCount, lastUpsert, storeCalls, failed, article_chunks, restarts>>
    /\ harnessIdle

\* markets lines 162-168
DecodeMarkets ==
    /\ proc = "markets"
    /\ pc = "decode"
    /\ LET d == Decode(Payload(msg))
       IN  IF d.ok THEN /\ raw' = d.v
                        /\ pc' = "normalize"
                        /\ exc' = exc
           ELSE IF d.exc \in DecodeCaught
                THEN /\ pc' = "skipcommit"
                     /\ UNCHANGED <<raw, exc>>
                ELSE /\ Closes(d.exc)
                     /\ raw' = raw
    /\ UNCHANGED <<proc, log, committed, pending, position, running, msg, normalized,
                   chunks, markets, upsertCount, lastUpsert, storeCalls, failed, article_chunks, restarts>>
    /\ harnessIdle

\* markets lines 171-178
Normalize ==
    /\ proc = "markets"
    /\ pc = "normalize"
    /\ LET n == IF msg.topic = "kalshi.markets" THEN normalize_kalshi(raw)
                ELSE IF msg.topic = "polymarket.markets" THEN normalize_polymarket(raw)
                ELSE RetNone
       IN  IF n.k = "raise" THEN /\ Closes(n.exc)
                                 /\ normalized' = normalized
           ELSE /\ normalized' = n
                /\ pc' = AfterNormalize(n)
                /\ exc' = exc
    /\ UNCHANGED <<proc, log, committed, pending, position, running, msg, raw,
                   chunks, markets, upsertCount, lastUpsert, storeCalls, failed, article_chunks, restarts>>
    /\ harnessIdle

\* markets line 179: upsert_market(normalized); normalized['platform'] on None raises
Upsert ==
    /\ proc = "markets"
    /\ pc = "upsert"
    /\ IF normalized.k = "ret"
       THEN /\ markets' = upsert_market(markets, normalized.v)
            /\ upsertCount' = [upsertCount EXCEPT ![msg.topic][msg.offset + 1] = @ + 1]
            /\ lastUpsert' = [topic |-> msg.topic, offset |-> msg.offset,
                              rec |-> normalized.v, after |-> markets']
            /\ pc' = "commit"
            /\ exc' = exc
       ELSE /\ Closes("TypeError")
            /\ UNCHANGED <<markets, upsertCount, lastUpsert>>
    /\ UNCHANGED <<proc, log, committed, pending, position, running, msg, raw,
                   normalized, chunks, storeCalls, failed, article_chunks, restarts>>
    /\ harnessIdle

\* markets lines 167 and 183, news line 182: consumer.commit(message=msg) sends
\* the request and returns (asynchronous=True is the default); a request for a
\* later offset of the partition supersedes the unsettled earlier one; the
\* locals of the finished iteration are dead and are cleared
Commit ==
    /\ pc \in {"commit", "skipcommit"}
    /\ pending' = [pending EXCEPT ![msg.topic] = CommitOffset(msg)]
    /\ pc' = "loop"
    /\ msg' = NoMsg
    /\ raw' = JNull
    /\ normalized' = RetNone
    /\ failed' = {}
    /\ UNCHANGED <<proc, log, committed, position, running, chunks, exc, markets,
                   upsertCount, lastUpsert, storeCalls, article_chunks, restarts>>
    /\ harnessIdle

\* consumer.commit(message=msg) raises KafkaException
CommitRaise ==
    /\ pc \in {"commit", "skipcommit"}
    /\ Closes("KafkaException")
    /\ UNCHANGED <<proc, log, committed, pending, position, running, msg, raw,
                   normalized, chunks, markets, upsertCount, lastUpsert, storeCalls, failed, article_chunks, restarts>>
    /\ harnessIdle

\* the broker applies the commit request last sent for a partition
BrokerCommit ==
    /\ \E t \in AllTopics :
          /\ pending[t] > committed[t]
          /\ committed' = [committed EXCEPT ![t] = pending[t]]
    /\ UNCHANGED <<proc, log, pending, position, pc, running, msg, raw, normalized,
                   chunks, exc, markets, upsertCount, lastUpsert, storeCalls, failed, article_chunks, restarts>>
    /\ harnessIdle

\* the unsettled commit request of a partition fails or is lost; nothing
\* reports it to run()
BrokerDrop ==
    /\ \E t \in AllTopics :
          /\ pending[t] > committed[t]
          /\ pending' = [pending EXCEPT ![t] = committed[t]]
    /\ UNCHANGED <<proc, log, committed, position, pc, running, msg, raw, normalized,
                   chunks, exc, markets, upsertCount, lastUpsert, storeCalls, failed, article_chunks, restarts>>
    /\ harnessIdle

\* the process dies (kill -9, power loss, signal before the handlers are
\* installed): its memory is lost, the broker keeps the log and the offsets
Crash ==
    /\ pc \notin {"closed", "down"}
    /\ pc' = "down"
    /\ running' = TRUE
    /\ msg' = NoMsg
    /\ raw' = JNull
    /\ normalized' = RetNone
    /\ chunks' = <<>>
    /\ position' = [t \in AllTopics |-> 0]
    /\ failed' = {}
    /\ UNCHANGED <<proc, log, committed, pending, exc, markets, upsertCount, lastUpsert,
                   storeCalls, article_chunks, restarts>>
    /\ harnessIdle

\* the supervisor starts the process again once the old session is settled
Restart ==
    /\ pc \in {"closed", "down"}
    /\ \A t \in AllTopics : pending[t] <= committed[t]
    /\ restarts < MaxRestarts
    /\ restarts' = restarts + 1
    /\ pc' = "start"
    /\ running' = TRUE
    /\ msg' = NoMsg
    /\ raw' = JNull
    /\ normalized' = RetNone
    /\ chunks' = <<>>
    /\ exc' = "none"
    /\ position' = [t \in AllTopics |-> 0]
    /\ failed' = {}
    /\ UNCHANGED <<proc, log, committed, pending, markets, upsertCount, lastUpsert,
                   storeCalls, article_chunks>>
    /\ harnessIdle

----------------------------------------------------------------------------
(* news_consumer.py.  A text is modelled by its length, a chunk by the     *)
(* half-open interval of the text it covers.                               *)

Min(a, b) == IF a <= b THEN a ELSE b

RECURSIVE ChunkFrom(_, _, _)
ChunkFrom(start, n, chunk_size) ==
    IF start < n
    THEN <<[start |-> start, end |-> Min(start + chunk_size, n)]>>
         \o ChunkFrom(start + chunk_size - 200, n, chunk_size)
    ELSE <<>>

\* the whole text as one chunk
chunk_text_unsplit(n, chunk_size) ==
    IF 0 < n THEN <<[start |-> 0, end |-> n]>> ELSE <<>>

\* consecutive chunks of chunk_size characters that share nothing
chunk_text_no_overlap(n, chunk_size) ==
    [i \in 1..((n + chunk_size - 1) \div chunk_size) |->
        [start |-> (i - 1) * chunk_size, end |-> Min(i * chunk_size, n)]]

\* chunk_text(text, chunk_size) for a text of n characters
chunk_text(n, chunk_size) == ChunkFrom(0, n, chunk_size)

RECURSIVE IntLen(_)
IntLen(n) == IF n < 0 THEN 1 + IntLen(-n) ELSE IF n < 10 THEN 1 ELSE 1 + IntLen(n \div 10)

\* len(f"{x}")
FmtLen(x) ==
    CASE x.t = "str"  -> Len(x.s)
      [] x.t = "text" -> x.len
      [] x.t = "null" -> 4
      [] x.t = "bool" -> IF x.b THEN 4 ELSE 5
      [] x.t = "int"  -> IntLen(x.n)

\* x[:n] is defined for str and list; None, numbers and bool are not subscriptable
Sliceable(x) == x.t \in {"str", "text", "arr"}

\* a or b
PyOr(a, b) == IF Truthy(a) THEN a ELSE b

\* process_article, lines 125-143: up to the loop over the chunks
ProcessPrelude(article) ==
    IF ~HasGet(article) THEN [k |-> "raise", exc |-> "AttributeError"]
    ELSE LET title   == Get(article, "title", JStr(<<>>))
             content == PyOr(Get(article, "content", JStr(<<>>)),
                             Get(article, "description", JStr(<<>>)))
             source  == Get(article, "source", EmptyObj)
         IN  IF ~Truthy(content) THEN [k |-> "skip"]
             ELSE IF ~HasGet(source) THEN [k |-> "raise", exc |-> "AttributeError"]
             ELSE [k |-> "chunks",
                   chunks |-> chunk_text(FmtLen(title) + 2 + FmtLen(content), CHUNK_SIZE)]

\* news lines 176-180
DecodeNews ==
    /\ proc = "news"
    /\ pc = "decode"
    /\ LET d == Decode(Payload(msg))
       IN  IF d.ok THEN /\ raw' = d.v
                        /\ pc' = "process"
                        /\ exc' = exc
           ELSE IF d.exc \in NewsDecodeCaught
                THEN /\ pc' = "commit"
                     /\ UNCHANGED <<raw, exc>>
                ELSE /\ Closes(d.exc)
                     /\ raw' = raw
    /\ UNCHANGED <<proc, log, committed, pending, position, running, msg, normalized,
                   chunks, markets, upsertCount, lastUpsert, storeCalls, failed, article_chunks, restarts>>
    /\ harnessIdle

\* news line 178 into process_article, lines 125-143
ProcessArticle ==
    /\ proc = "news"
    /\ pc = "process"
    /\ LET out == ProcessPrelude(raw)
       IN  CASE out.k = "raise"  -> Closes(out.exc) /\ chunks' = chunks
             [] out.k = "skip"   -> pc' = "commit" /\ UNCHANGED <<exc, chunks>>
             [] out.k = "chunks" -> pc' = "embed" /\ chunks' = out.chunks /\ exc' = exc
    /\ failed' = {}
    /\ UNCHANGED <<proc, log, committed, pending, position, running, msg, raw,
                   normalized, markets, upsertCount, lastUpsert, storeCalls,
                   article_chunks, restarts>>
    /\ harnessIdle

\* what the embeddings request of lines 92-98 can do: answer with a vector,
\* or raise (no connection, rate limit, bad key, openai not installed)
ProviderFailures == {"APIConnectionError", "RateLimitError", "ImportError"}
EmbedOutcomes == {"embedding"} \cup ProviderFailures

\* an embed_text without its except clause
EmbedCaught_none == {}

\* line 99, except Exception: every exception the request can raise
EmbedCaught == {"APIConnectionError", "RateLimitError", "ImportError",
                "AuthenticationError", "IndexError"}

\* embed_text, lines 91-101, for an outcome o of the request
embed_text(o) ==
    IF o = "embedding" THEN Ret("embedding")
    ELSE IF o \in EmbedCaught THEN RetNone
    ELSE Escapes(o)

\* INSERT ... ON CONFLICT (url, chunk_index) DO NOTHING
store_chunk_insert_if_absent(table, article_url, chunk) ==
    IF \E i \in 1..Len(table) : table[i].url = article_url /\ table[i].chunk = chunk
    THEN table
    ELSE Append(table, [url |-> article_url, chunk |-> chunk])

\* store_chunk, lines 104-120: logs the call and writes nothing
store_chunk(table, article_url, chunk) == table

\* lines 145-148: embed_text returned an embedding; store_chunk slices the url
EmbedStore ==
    /\ proc = "news"
    /\ pc = "embed"
    /\ chunks # <<>>
    /\ embed_text("embedding").k = "ret"
    /\ IF Sliceable(Get(raw, "url", JStr(<<>>)))
       THEN /\ storeCalls' = storeCalls \cup {[offset |-> msg.offset,
                                             url |-> Get(raw, "url", JStr(<<>>)),
                                             chunk |-> Head(chunks)]}
            /\ article_chunks' = store_chunk(article_chunks,
                                             Get(raw, "url", JStr(<<>>)), Head(chunks))
            /\ chunks' = Tail(chunks)
            /\ UNCHANGED <<pc, exc>>
       ELSE /\ Closes("TypeError")
            /\ UNCHANGED <<storeCalls, article_chunks, chunks>>
    /\ UNCHANGED <<proc, log, committed, pending, position, running, msg, raw,
                   normalized, markets, upsertCount, lastUpsert, failed, restarts>>
    /\ harnessIdle

\* lines 145-147: the request failed; embed_text caught the exception and
\* returned None, so the chunk is not stored and the loop goes on (an
\* exception embed_text lets through would leave process_article and run())
EmbedFail ==
    /\ proc = "news"
    /\ pc = "embed"
    /\ chunks # <<>>
    /\ \E o \in ProviderFailures :
          IF embed_text(o).k = "none"
          THEN /\ chunks' = Tail(chunks)
               /\ failed' = failed \cup {Head(chunks)}
               /\ UNCHANGED <<pc, exc>>
          ELSE /\ Closes(embed_text(o).exc)
               /\ UNCHANGED <<chunks, failed>>
    /\ UNCHANGED <<proc, log, committed, pending, position, running, msg, raw,
                   normalized, markets, upsertCount, lastUpsert, storeCalls,
                   article_chunks, restarts>>
    /\ harnessIdle

\* line 150: log.info(f"... {title[:50]} ..."), then return to run()
ProcessDone ==
    /\ proc = "news"
    /\ pc = "embed"
    /\ chunks = <<>>
    /\ IF Sliceable(Get(raw, "title", JStr(<<>>)))
       THEN pc' = "commit" /\ exc' = exc
       ELSE Closes("TypeError")
    /\ UNCHANGED <<proc, log, committed, pending, position, running, msg, raw,
                   normalized, chunks, markets, upsertCount, lastUpsert, storeCalls, failed, article_chunks, restarts>>
    /\ harnessIdle

----------------------------------------------------------------------------
(* Specification of a consumer process *)

\* the event logs a consumer process can find: what the producers (or any
\* other client of the broker) have published, in publication order
LogOf(a, b, c) ==
    [t \in AllTopics |-> IF t = "kalshi.markets" THEN a
                         ELSE IF t = "polymarket.markets" THEN b ELSE c]

Logs(p) ==
    IF p = "markets"
    THEN {LogOf(a, b, <<>>) : a \in SeqsUpTo(Payloads("kalshi.markets"), MaxLog),
                              b \in SeqsUpTo(Payloads("polymarket.markets"), MaxLog)}
    ELSE {LogOf(<<>>, <<>>, c) : c \in SeqsUpTo(Payloads("news.feed"), MaxLog)}

LogSize == Len(log["kalshi.markets"]) + Len(log["polymarket.markets"]) + Len(log["news.feed"])

Init ==
    /\ proc \in {"markets", "news"}
    /\ log \in Logs(proc)
    /\ LogSize <= MaxLog
    /\ committed = [t \in AllTopics |-> 0]
    /\ pending = [t \in AllTopics |-> 0]
    /\ position = [t \in AllTopics |-> 0]
    /\ pc = "start"
    /\ running = TRUE
    /\ msg = NoMsg
    /\ raw = JNull
    /\ normalized = RetNone
    /\ chunks = <<>>
    /\ exc = "none"
    /\ markets = <<>>
    /\ upsertCount = [t \in AllTopics |-> [i \in 1..Len(log[t]) |-> 0]]
    /\ lastUpsert = NoUpsert
    /\ storeCalls = {}
    /\ failed = {}
    /\ article_chunks = <<>>
    /\ restarts = 0
    /\ nplatform = "none"
    /\ nraw = JNull
    /\ nres = Idle
    /\ producerOff
    /\ chunkOff
    /\ edgeOff
    /\ authOff
    /\ catOff

Next ==
    \/ Start
    \/ HandleSignal
    \/ LoopGo
    \/ LoopExit
    \/ PollNone
    \/ PollEof
    \/ PollError
    \/ PollMsg
    \/ DecodeMarkets
    \/ Normalize
    \/ Upsert
    \/ DecodeNews
    \/ ProcessArticle
    \/ EmbedStore
    \/ EmbedFail
    \/ ProcessDone
    \/ Commit
    \/ CommitRaise
    \/ BrokerCommit
    \/ BrokerDrop
    \/ Crash
    \/ Restart

Spec == Init /\ [][Next]_vars

\* the steps of run() itself: every call it makes returns or raises (poll
\* has a 1 s timeout, commit is asynchronous), so run() keeps taking steps
\* for as long as the process lives
RunNext ==
    \/ Start
    \/ LoopGo
    \/ LoopExit
    \/ PollNone
    \/ PollEof
    \/ PollError
    \/ PollMsg
    \/ DecodeMarkets
    \/ Normalize
    \/ Upsert
    \/ DecodeNews
    \/ ProcessArticle
    \/ EmbedStore
    \/ EmbedFail
    \/ ProcessDone
    \/ Commit
    \/ CommitRaise

\* one life of the process, from its start to its end
NextLive ==
    \/ RunNext
    \/ HandleSignal
    \/ BrokerCommit
    \/ BrokerDrop
    \/ Crash

\* the initial states of Spec whose log holds at most MaxLiveLog messages
InitLive ==
    /\ Init
    /\ LogSize <= MaxLiveLog

SpecLive == InitLive /\ [][NextLive]_vars /\ WF_vars(RunNext)

\* the consumer process with the polled error events kept in msg: the steps
\* PollEof and PollError of Next are taken in two, the event poll() returns
\* and the branch on msg.error()
NextPoll ==
    \/ Start
    \/ HandleSignal
    \/ LoopGo
    \/ LoopExit
    \/ PollNone
    \/ PollEofEvent
    \/ PollErrorEvent
    \/ MsgError
    \/ PollMsg
    \/ DecodeMarkets
    \/ Normalize
    \/ Upsert
    \/ DecodeNews
    \/ ProcessArticle
    \/ EmbedStore
    \/ EmbedFail
    \/ ProcessDone
    \/ Commit
    \/ CommitRaise
    \/ BrokerCommit
    \/ BrokerDrop
    \/ Crash
    \/ Restart

SpecPoll == InitLive /\ [][NextPoll]_vars

----------------------------------------------------------------------------
(* Specification of the normalizer harness: one call on one decoded value  *)

InitNorm ==
    /\ proc = "markets"
    /\ log = [t \in AllTopics |-> <<>>]
    /\ committed = [t \in AllTopics |-> 0]
    /\ pending = [t \in AllTopics |-> 0]
    /\ position = [t \in AllTopics |-> 0]
    /\ pc = "start"
    /\ running = TRUE
    /\ msg = NoMsg
    /\ raw = JNull
    /\ normalized = RetNone
    /\ chunks = <<>>
    /\ exc = "none"
    /\ markets = <<>>
    /\ upsertCount = [t \in AllTopics |-> [i \in 1..Len(log[t]) |-> 0]]
    /\ lastUpsert = NoUpsert
    /\ storeCalls = {}
    /\ failed = {}
    /\ article_chunks = <<>>
    /\ restarts = 0
    /\ nplatform \in {"kalshi", "polymarket"}
    /\ nraw \in NormInputs(nplatform)
    /\ nres = Pending
    /\ producerOff
    /\ chunkOff
    /\ edgeOff
    /\ authOff
    /\ catOff

CallNormalizeKalshi ==
    /\ nplatform = "kalshi"
    /\ nres = Pending
    /\ nres' = normalize_kalshi(nraw)
    /\ UNCHANGED <<nplatform, nraw>>
    /\ UNCHANGED <<consumerVars, producerVars, chunkVars, edgeVars, authVars, catVars>>

CallNormalizePolymarket ==
    /\ nplatform = "polymarket"
    /\ nres = Pending
    /\ nres' = normalize_polymarket(nraw)
    /\ UNCHANGED <<nplatform, nraw>>
    /\ UNCHANGED <<consumerVars, producerVars, chunkVars, edgeVars, authVars, catVars>>

NextNorm ==
    \/ CallNormalizeKalshi
    \/ CallNormalizePolymarket

SpecNorm == InitNorm /\ [][NextNorm]_vars

----------------------------------------------------------------------------
(* kafka/producers: kalshi_producer.py, polymarket_producer.py,            *)
(* news_producer.py.  Each run() polls its API in a while True loop,       *)
(* produces one record per fetched item and flushes.  The upstream API     *)
(* lists the same items (feed) on every fetch; what it reports about an    *)
(* item changes from one poll cycle to the next.                           *)

ADAPTERS == {"kalshi", "polymarket", "news"}

\* POLL_INTERVAL_SECONDS, the default of each module
POLL_INTERVAL_SECONDS(a) == IF a = "news" THEN 300 ELSE 60

\* news_producer.py line 105: time.sleep(1)
QUERY_PAUSE == 1

\* create_producer: "retries": 5; acks all; enable.idempotence is not set and
\* max.in.flight is left at the library's default, so a retried record can
\* be written after a record produced later
Retries == 5

\* SEARCH_QUERIES, by index; the other two producers poll once per cycle
SEARCH_QUERIES == 1..NumQueries
Queries(a) == IF a = "news" THEN SEARCH_QUERIES ELSE {1}

Unknown == JStr(<<"u", "n", "k", "n", "o", "w", "n">>)

DigitChar(d) ==
    CASE d = 0 -> "0" [] d = 1 -> "1" [] d = 2 -> "2" [] d = 3 -> "3" [] d = 4 -> "4"
      [] d = 5 -> "5" [] d = 6 -> "6" [] d = 7 -> "7" [] d = 8 -> "8" [] d = 9 -> "9"

RECURSIVE IntStr(_)
IntStr(n) == IF n < 0 THEN <<"-">> \o IntStr(-n)
             ELSE IF n < 10 THEN <<DigitChar(n)>>
             ELSE IntStr(n \div 10) \o <<DigitChar(n % 10)>>

\* Python: str(x)
Str(x) ==
    CASE x.t \in {"str", "text"} -> x
      [] x.t = "null" -> JStr(<<"N", "o", "n", "e">>)
      [] x.t = "bool" -> IF x.b THEN JStr(<<"T", "r", "u", "e">>)
                         ELSE JStr(<<"F", "a", "l", "s", "e">>)
      [] x.t = "int"  -> JStr(IntStr(x.n))

\* Python: x.encode("utf-8"); only str has .encode
Encode(x) == IF x.t \in {"str", "text"} THEN Ok(x) ELSE Raise("AttributeError")

\* kalshi_producer.py line 108
kalshi_key(market) ==
    IF ~HasGet(market) THEN Raise("AttributeError")
    ELSE Encode(Get(market, "ticker", Unknown))

\* polymarket_producer.py line 87
polymarket_key(market) ==
    IF ~HasGet(market) THEN Raise("AttributeError")
    ELSE Encode(Str(Get(market, "conditionId", Get(market, "id", Unknown))))

\* news_producer.py line 92
news_key(article) ==
    IF ~HasGet(article) THEN Raise("AttributeError")
    ELSE Encode(Get(article, "url", JStr(<<>>)))

KeyOf(a, item) ==
    CASE a = "kalshi"     -> kalshi_key(item)
      [] a = "polymarket" -> polymarket_key(item)
      [] a = "news"       -> news_key(item)

\* news_producer.py line 94: article["_search_query"] = query
WithQuery(article, q) ==
    JObj([k \in DOMAIN article.o \cup {"_search_query"} |->
            IF k = "_search_query" THEN JInt(q) ELSE article.o[k]])

\* the object that json.dumps serializes into the record's value
ValueOf(a, item, q) == IF a = "news" THEN WithQuery(item, q) ELSE item

\* what the API reports about an item of the feed in poll cycle c
KalshiMarket(item, c) ==
    IF item = "nondict" THEN JStr(<<"x">>)
    ELSE MkObj([ticker  |-> CASE item = "A"    -> JStr(<<"A">>)
                              [] item = "B"    -> JStr(<<"B">>)
                              [] item = "null" -> JNull
                              [] item = "none" -> Absent,
                yes_bid |-> JInt(40 + c),
                yes_ask |-> JInt(50 + c)])

PolymarketMarket(item, c) ==
    MkObj([conditionId |-> CASE item = "C"     -> JStr(<<"C">>)
                             [] item = "nullI" -> JNull
                             [] OTHER          -> Absent,
           id          |-> CASE item \in {"I", "nullI"} -> JStr(<<"I">>)
                             [] item = "int"            -> JInt(7)
                             [] OTHER                   -> Absent,
           volume      |-> JInt(10 + c)])

NewsArticle(item, c) ==
    MkObj([url   |-> CASE item = "U"    -> JStr(<<"U">>)
                       [] item = "null" -> JNull
                       [] item = "none" -> Absent,
           title |-> JStr(<<"T">>)])

Snapshot(a, item, c) ==
    CASE a = "kalshi"     -> KalshiMarket(item, c)
      [] a = "polymarket" -> PolymarketMarket(item, c)
      [] a = "news"       -> NewsArticle(item, c)

\* the listings an API can hold
Feeds(a) ==
    CASE a = "kalshi" ->
            {<<>>, <<"A">>, <<"A", "B">>, <<"none">>, <<"A", "null">>, <<"nondict", "A">>}
      [] a = "polymarket" ->
            {<<>>, <<"C">>, <<"C", "I">>, <<"none">>, <<"nullI">>, <<"int">>}
      [] a = "news" ->
            {<<>>, <<"U">>, <<"none">>, <<"U", "null">>}

\* outcomes of client.get() + raise_for_status(): a 2xx response, a timeout,
\* a 5xx or 429 response, or a URL the client cannot request at all; only
\* the Kalshi producer builds its URL from the environment (KALSHI_BASE_URL),
\* and a malformed URL fails every fetch
FetchOutcomes(a, last) ==
    IF last = "badurl" THEN {"badurl"}
    ELSE {"ok", "timeout", "500", "429"}
         \cup (IF a = "kalshi" /\ last = "none" THEN {"badurl"} ELSE {})

\* the exception a failed fetch raises
FetchRaises(o) ==
    CASE o \in {"500", "429"} -> "HTTPStatusError"
      [] o = "timeout"        -> "TimeoutException"
      [] o = "badurl"         -> "UnsupportedProtocol"

\* except clauses that forget the catch-all
ProducerCaught_status_only == {"HTTPStatusError", "KafkaException"}

\* except httpx.HTTPStatusError / KafkaException / Exception: every
\* exception but KeyboardInterrupt and SystemExit
ProducerCaught ==
    {"HTTPStatusError", "KafkaException", "TimeoutException", "UnsupportedProtocol",
     "AttributeError", "TypeError"}

\* the sleep at the bottom of the while True loop, whatever the try block did
SleepAfter(a, o) == POLL_INTERVAL_SECONDS(a)

\* where run() goes when the try block of query q ends: the next query of
\* the for loop, or the sleep at the bottom of the cycle
EndOfQuery(a, q, o) ==
    IF q + 1 \in Queries(a)
    THEN /\ ppc' = "fetch"
         /\ qi' = q + 1
         /\ sleepFor' = sleepFor
    ELSE /\ ppc' = "sleep"
         /\ qi' = 1
         /\ sleepFor' = SleepAfter(a, o)

\* an exception e raised inside the try block: handled by an except clause
\* (logged), or it ends the process
Handle(e, o) ==
    IF e \in ProducerCaught
    THEN /\ EndOfQuery(adapter, qi, o)
         /\ pdeath' = pdeath
    ELSE /\ ppc' = "dead"
         /\ pdeath' = e
         /\ UNCHANGED <<qi, sleepFor>>

producerIdle == UNCHANGED <<consumerVars, normVars, chunkVars, edgeVars, authVars, catVars>>

\* lines 101-102: markets = fetch_kalshi_markets(client), and its failures
Fetch ==
    /\ ppc = "fetch"
    /\ \E o \in FetchOutcomes(adapter, lastFetch) :
          /\ lastFetch' = o
          /\ cycle' = IF qi = 1 THEN cycle + 1 ELSE cycle
          /\ IF o = "ok"
             THEN /\ batch' = [i \in 1..Len(feed) |-> Snapshot(adapter, feed[i], cycle')]
                  /\ ppc' = "produce"
                  /\ UNCHANGED <<qi, sleepFor, pdeath>>
             ELSE /\ batch' = <<>>
                  /\ Handle(FetchRaises(o), o)
    /\ UNCHANGED <<adapter, feed, queue, plog, nproduced>>
    /\ producerIdle

\* lines 104-116: one iteration of the for loop: key, value, producer.produce
Produce ==
    /\ ppc = "produce"
    /\ batch # <<>>
    /\ LET key == KeyOf(adapter, Head(batch))
       IN  IF key.ok
           THEN /\ queue' = Append(queue, [key   |-> key.v,
                                           value |-> ValueOf(adapter, Head(batch), qi),
                                           seq   |-> nproduced + 1,
                                           retry |-> FALSE])
                /\ nproduced' = nproduced + 1
                /\ batch' = Tail(batch)
                /\ UNCHANGED <<ppc, qi, sleepFor, pdeath>>
           ELSE /\ batch' = <<>>
                /\ Handle(key.exc, "ok")
                /\ UNCHANGED <<queue, nproduced>>
    /\ UNCHANGED <<adapter, feed, cycle, plog, lastFetch>>
    /\ producerIdle

\* the for loop is over: line 120, producer.flush(timeout=10) is called
ProduceDone ==
    /\ ppc = "produce"
    /\ batch = <<>>
    /\ ppc' = "flush"
    /\ UNCHANGED <<adapter, feed, qi, cycle, batch, queue, plog, nproduced, lastFetch,
                   sleepFor, pdeath>>
    /\ producerIdle

\* after flush: news pauses 1 s inside the try block, the others leave it
AfterFlush ==
    IF adapter = "news"
    THEN /\ ppc' = "pause"
         /\ sleepFor' = QUERY_PAUSE
         /\ qi' = qi
    ELSE EndOfQuery(adapter, qi, "ok")

\* flush returns 0: every queued record was acknowledged or reported failed
FlushDone ==
    /\ ppc = "flush"
    /\ queue = <<>>
    /\ AfterFlush
    /\ UNCHANGED <<adapter, feed, cycle, batch, queue, plog, nproduced, lastFetch, pdeath>>
    /\ producerIdle

\* flush returns after its 10 s timeout with records still queued; run()
\* drops the returned count
FlushTimeout ==
    /\ ppc = "flush"
    /\ queue # <<>>
    /\ AfterFlush
    /\ UNCHANGED <<adapter, feed, cycle, batch, queue, plog, nproduced, lastFetch, pdeath>>
    /\ producerIdle

\* news line 105: time.sleep(1) returns
Pause ==
    /\ ppc = "pause"
    /\ EndOfQuery(adapter, qi, "ok")
    /\ UNCHANGED <<adapter, feed, cycle, batch, queue, plog, nproduced, lastFetch, pdeath>>
    /\ producerIdle

\* line 129: time.sleep(POLL_INTERVAL_SECONDS) returns, next cycle
Sleep ==
    /\ ppc = "sleep"
    /\ cycle < MaxCycles
    /\ ppc' = "fetch"
    /\ UNCHANGED <<adapter, feed, qi, cycle, batch, queue, plog, nproduced, lastFetch,
                   sleepFor, pdeath>>
    /\ producerIdle

\* SIGINT or SIGTERM: run() installs no handler, so SIGINT raises
\* KeyboardInterrupt wherever run() is and SIGTERM kills the process
Signal ==
    /\ ppc \notin {"off", "dead"}
    /\ ppc' = "dead"
    /\ pdeath' = "signal"
    /\ UNCHANGED <<adapter, feed, qi, cycle, batch, queue, plog, nproduced, lastFetch,
                   sleepFor>>
    /\ producerIdle

\* librdkafka sends the records of a partition in produce order, and puts
\* the records of a failed request back in that order: the records waiting
\* for a retry are a prefix of the queue.  It may send now the oldest record
\* waiting for a retry and the oldest record not yet sent.
FirstFresh == {i \in 1..Len(queue) :
                  ~queue[i].retry /\ \A j \in 1..(i - 1) : queue[j].retry}
FirstRetry == {i \in {1} : Len(queue) > 0 /\ queue[1].retry}
Sendable == FirstFresh \cup FirstRetry

Remove(q, i) == SubSeq(q, 1, i - 1) \o SubSeq(q, i + 1, Len(q))

\* the broker appends a record and acknowledges it
Deliver ==
    /\ ppc \notin {"off", "dead"}
    /\ \E i \in Sendable :
          /\ plog' = [k \in DOMAIN plog \cup {queue[i].key} |->
                          IF k = queue[i].key
                          THEN [value |-> queue[i].value, seq |-> queue[i].seq]
                          ELSE plog[k]]
          /\ queue' = Remove(queue, i)
    /\ UNCHANGED <<adapter, feed, ppc, qi, cycle, batch, nproduced, lastFetch,
                   sleepFor, pdeath>>
    /\ producerIdle

\* a send fails with a retriable error: the record waits for its retry
SendFail ==
    /\ ppc \notin {"off", "dead"}
    /\ Retries > 0
    /\ \E i \in FirstFresh :
          queue' = [queue EXCEPT ![i].retry = TRUE]
    /\ UNCHANGED <<adapter, feed, ppc, qi, cycle, batch, plog, nproduced, lastFetch,
                   sleepFor, pdeath>>
    /\ producerIdle

\* the retries of a record are used up (or it timed out): delivery_report(err)
DeliveryFail ==
    /\ ppc \notin {"off", "dead"}
    /\ \E i \in FirstRetry :
          queue' = Remove(queue, i)
    /\ UNCHANGED <<adapter, feed, ppc, qi, cycle, batch, plog, nproduced, lastFetch,
                   sleepFor, pdeath>>
    /\ producerIdle

\* run(), lines 95-99: the producer is created and the loop entered
InitProd ==
    /\ proc = "markets"
    /\ log = [t \in AllTopics |-> <<>>]
    /\ committed = [t \in AllTopics |-> 0]
    /\ pending = [t \in AllTopics |-> 0]
    /\ position = [t \in AllTopics |-> 0]
    /\ pc = "start"
    /\ running = TRUE
    /\ msg = NoMsg
    /\ raw = JNull
    /\ normalized = RetNone
    /\ chunks = <<>>
    /\ exc = "none"
    /\ markets = <<>>
    /\ upsertCount = [t \in AllTopics |-> [i \in 1..Len(log[t]) |-> 0]]
    /\ lastUpsert = NoUpsert
    /\ storeCalls = {}
    /\ failed = {}
    /\ article_chunks = <<>>
    /\ restarts = 0
    /\ nplatform = "none"
    /\ nraw = JNull
    /\ nres = Idle
    /\ chunkOff
    /\ edgeOff
    /\ authOff
    /\ catOff
    /\ adapter \in ADAPTERS
    /\ feed \in Feeds(adapter)
    /\ ppc = "fetch"
    /\ qi = 1
    /\ cycle = 0
    /\ batch = <<>>
    /\ queue = <<>>
    /\ plog = <<>>
    /\ nproduced = 0
    /\ lastFetch = "none"
    /\ sleepFor = 0
    /\ pdeath = "none"

NextProd ==
    \/ Fetch
    \/ Produce
    \/ ProduceDone
    \/ FlushDone
    \/ FlushTimeout
    \/ Pause
    \/ Sleep
    \/ Signal
    \/ Deliver
    \/ SendFail
    \/ DeliveryFail

SpecProd == InitProd /\ [][NextProd]_vars

----------------------------------------------------------------------------
(* Specification of the chunk_text harness: one call with the default      *)
(* chunk_size on a text of any length up to MaxTextLen                     *)

InitChunk ==
    /\ proc = "news"
    /\ log = [t \in AllTopics |-> <<>>]
    /\ committed = [t \in AllTopics |-> 0]
    /\ pending = [t \in AllTopics |-> 0]
    /\ position = [t \in AllTopics |-> 0]
    /\ pc = "start"
    /\ running = TRUE
    /\ msg = NoMsg
    /\ raw = JNull
    /\ normalized = RetNone
    /\ chunks = <<>>
    /\ exc = "none"
    /\ markets = <<>>
    /\ upsertCount = [t \in AllTopics |-> [i \in 1..Len(log[t]) |-> 0]]
    /\ lastUpsert = NoUpsert
    /\ storeCalls = {}
    /\ failed = {}
    /\ article_chunks = <<>>
    /\ restarts = 0
    /\ nplatform = "none"
    /\ nraw = JNull
    /\ nres = Idle
    /\ producerOff
    /\ edgeOff
    /\ authOff
    /\ catOff
    /\ ctext \in 0..MaxTextLen
    /\ cres = Pending

CallChunkText ==
    /\ cres = Pending
    /\ cres' = Ret(chunk_text(ctext, CHUNK_SIZE))
    /\ UNCHANGED ctext
    /\ UNCHANGED <<consumerVars, normVars, producerVars, edgeVars, authVars, catVars>>

NextChunk == CallChunkText

SpecChunk == InitChunk /\ [][NextChunk]_vars

----------------------------------------------------------------------------
(* Edge Detector and Alert Dispatcher.  The repository declares the tables *)
(* they work on (app/models/edge.py, app/models/user.py) and leaves the    *)
(* routes over them as stubs; what the detector and the dispatcher do is   *)
(* taken from sections 4.6 and 4.7 of the design.  Probabilities are in    *)
(* hundredths.                                                             *)

MaxEdges == 2          \* rows of the edges table
MaxNotified == 2       \* notifications counted per (edge, user)
DeliveryRetries == 1   \* failed deliveries a batch retries before giving a user up

\* the system-wide floor, 0.05
EdgeFloor == 5

\* markets 1 (Kalshi) and 2 (Polymarket)
MarketIds == {1, 2}
PlatformOf(m) == IF m = 1 THEN "kalshi" ELSE "polymarket"

\* a market's yes_price with the model's estimate for it, as
\* <<market_id, yes_price, model_probability>>: magnitudes 5, 3, 17 on
\* market 1 and -20, -30 on market 2
DetectInputs == {<<1, 45, 50>>, <<1, 45, 48>>, <<1, 45, 62>>, <<2, 70, 50>>, <<2, 70, 40>>}

\* an Edge row as the detector writes it; alert_sent defaults to False
EdgeRow(m, y, p) ==
    [market_id |-> m, market_probability |-> y, model_probability |-> p,
     edge_magnitude |-> p - y, direction |-> IF p - y > 0 THEN "YES" ELSE "NO",
     alert_sent |-> FALSE]

\* rows of the users table
Users ==
    {[auth0_id |-> "a", alert_threshold |-> 10, alerts_enabled |-> TRUE,
      alert_platforms |-> {"kalshi"}],
     [auth0_id |-> "b", alert_threshold |-> 5, alerts_enabled |-> TRUE,
      alert_platforms |-> {"kalshi", "polymarket"}],
     [auth0_id |-> "c", alert_threshold |-> 5, alerts_enabled |-> FALSE,
      alert_platforms |-> {"kalshi", "polymarket"}]}

UserIds == {u.auth0_id : u \in Users}

\* a floor that leaves the boundary out
AtOrAboveFloor_strict(magnitude) == Abs(magnitude) > EdgeFloor

\* abs(edge_magnitude) is at or above the floor
AtOrAboveFloor(magnitude) == Abs(magnitude) >= EdgeFloor

\* a detector without the guard
EdgeExists_unguarded(table, m, y, p) == FALSE

\* the guard: an Edge, sent or unsent, with the same market and the same
\* probability pair
EdgeExists(table, m, y, p) ==
    \E i \in 1..Len(table) :
        /\ table[i].market_id = m
        /\ table[i].market_probability = y
        /\ table[i].model_probability = p

\* the users an Edge is dispatched to
Matched(row) ==
    {u.auth0_id : u \in {v \in Users :
        /\ v.alerts_enabled
        /\ v.alert_threshold <= Abs(row.edge_magnitude)
        /\ PlatformOf(row.market_id) \in v.alert_platforms}}

edgeIdle == UNCHANGED <<consumerVars, normVars, producerVars, chunkVars, authVars, catVars>>

\* the detector runs on a market whose probability is up to date, as often
\* as the market event is delivered
Detect ==
    /\ \E d \in DetectInputs :
          /\ IF AtOrAboveFloor(d[3] - d[2]) /\ ~EdgeExists(edges, d[1], d[2], d[3])
             THEN /\ Len(edges) < MaxEdges
                  /\ edges' = Append(edges, EdgeRow(d[1], d[2], d[3]))
             ELSE edges' = edges
          /\ lastDetect' = d
    /\ UNCHANGED <<disp, sent>>
    /\ edgeIdle

\* the matched users of the batch in hand still to be resolved
Unresolved == Matched(edges[disp.edge]) \ (disp.done \cup disp.gaveUp)

\* the Edge-detection event of an Edge is delivered to the idle dispatcher,
\* again after a crash, until the Edge has alert_sent set
DispatchStart ==
    /\ disp.pc = "idle"
    /\ \E i \in 1..Len(edges) :
          /\ ~edges[i].alert_sent
          /\ disp' = [pc |-> "sending", edge |-> i, done |-> {}, gaveUp |-> {},
                      retries |-> DeliveryRetries]
    /\ UNCHANGED <<edges, lastDetect, sent>>
    /\ edgeIdle

\* a notification reaches a matched user; the outcome is kept with the batch
Notify ==
    /\ disp.pc = "sending"
    /\ \E u \in Unresolved :
          /\ sent[<<disp.edge, u>>] < MaxNotified
          /\ sent' = [sent EXCEPT ![<<disp.edge, u>>] = @ + 1]
          /\ disp' = [disp EXCEPT !.done = @ \cup {u}]
    /\ UNCHANGED <<edges, lastDetect>>
    /\ edgeIdle

\* a delivery fails: it is retried, and after the bounded retries the user
\* is given up and logged as undelivered
NotifyFail ==
    /\ disp.pc = "sending"
    /\ \E u \in Unresolved :
          IF disp.retries > 0
          THEN disp' = [disp EXCEPT !.retries = @ - 1]
          ELSE disp' = [disp EXCEPT !.gaveUp = @ \cup {u}]
    /\ UNCHANGED <<edges, lastDetect, sent>>
    /\ edgeIdle

\* the batch is resolved: alert_sent is set, the only write of the dispatcher
DispatchFinish ==
    /\ disp.pc = "sending"
    /\ Unresolved = {}
    /\ edges' = [edges EXCEPT ![disp.edge].alert_sent = TRUE]
    /\ disp' = DispIdle
    /\ UNCHANGED <<lastDetect, sent>>
    /\ edgeIdle

\* the dispatcher dies inside a batch and is started again: the record of
\* the batch is lost, the edges table is kept
DispatcherCrash ==
    /\ disp.pc = "sending"
    /\ disp' = DispIdle
    /\ UNCHANGED <<edges, lastDetect, sent>>
    /\ edgeIdle

InitEdge ==
    /\ proc = "markets"
    /\ log = [t \in AllTopics |-> <<>>]
    /\ committed = [t \in AllTopics |-> 0]
    /\ pending = [t \in AllTopics |-> 0]
    /\ position = [t \in AllTopics |-> 0]
    /\ pc = "start"
    /\ running = TRUE
    /\ msg = NoMsg
    /\ raw = JNull
    /\ normalized = RetNone
    /\ chunks = <<>>
    /\ exc = "none"
    /\ markets = <<>>
    /\ upsertCount = [t \in AllTopics |-> [i \in 1..Len(log[t]) |-> 0]]
    /\ lastUpsert = NoUpsert
    /\ storeCalls = {}
    /\ failed = {}
    /\ article_chunks = <<>>
    /\ restarts = 0
    /\ nplatform = "none"
    /\ nraw = JNull
    /\ nres = Idle
    /\ producerOff
    /\ chunkOff
    /\ authOff
    /\ catOff
    /\ edges = <<>>
    /\ lastDetect = NoDetect
    /\ disp = DispIdle
    /\ sent = [x \in (1..MaxEdges) \X UserIds |-> 0]

NextEdge ==
    \/ Detect
    \/ DispatchStart
    \/ Notify
    \/ NotifyFail
    \/ DispatchFinish
    \/ DispatcherCrash

SpecEdge == InitEdge /\ [][NextEdge]_vars


----------------------------------------------------------------------------
(* app/auth/middleware.py.  A request is modelled by what its token is and *)
(* by what the JWKS endpoint would answer if it were asked.                *)

\* an HTTPException raised to the client
Http(status) == [k |-> "http", status |-> status]

\* what the Authorization header of a request can carry
ValidTokens == {"valid", "valid_nosub", "valid_emptysub"}
TokenKinds == {"missing", "malformed", "expired", "badsig", "wrongaud", "wrongiss"}
                  \cup ValidTokens

\* the claims of a token that verifies
PayloadOf(token) ==
    CASE token = "valid"          -> MkObj([sub |-> JStr(<<"u">>)])
      [] token = "valid_nosub"    -> MkObj([sub |-> Absent])
      [] token = "valid_emptysub" -> MkObj([sub |-> JStr(<<>>)])

\* what client.get(auth0_jwks_uri) with raise_for_status() and json() can do
JwksOutcomes == {"ok", "status500", "connecterror", "notjson"}

JwksRaises(o) ==
    CASE o = "status500"    -> "HTTPStatusError"
      [] o = "connecterror" -> "ConnectError"
      [] o = "notjson"      -> "JSONDecodeError"

\* HTTPBearer() with auto_error left on answers a request without bearer
\* credentials itself: 403 in the FastAPI releases before the security
\* classes were changed to 401, 401 since
BearerMissingStatus == {401, 403}

\* get_jwks, lines 49-55: [res, cache], the result and the cache it leaves
get_jwks(cache, fetch) ==
    IF cache = "None"
    THEN IF fetch = "ok" THEN [res |-> Ok("keys"), cache |-> "keys"]
         ELSE [res |-> Raise(JwksRaises(fetch)), cache |-> cache]
    ELSE [res |-> Ok(cache), cache |-> cache]

\* jwt.decode(token, jwks, algorithms, audience, issuer), lines 88-94
jwt_decode(token) ==
    CASE token = "expired"                     -> Raise("ExpiredSignatureError")
      [] token \in {"malformed", "badsig"}     -> Raise("JWTError")
      [] token \in {"wrongaud", "wrongiss"}    -> Raise("JWTClaimsError")
      [] token \in ValidTokens                 -> Ok(PayloadOf(token))

\* lines 97 and 103: except ExpiredSignatureError, except JWTError (with
\* its subclasses)
VerifyCaught == {"ExpiredSignatureError", "JWTError", "JWTClaimsError"}

\* verify_token, lines 77-104, for a request that carries a token
verify_token(token, cache, fetch) ==
    LET jwks == get_jwks(cache, fetch).res
        out  == IF jwks.ok THEN jwt_decode(token) ELSE jwks
    IN  IF out.ok THEN Ret(out.v)
        ELSE IF out.exc \in VerifyCaught THEN Http(401)
        ELSE Escapes(out.exc)

\* get_current_user_id, lines 116-119
get_current_user_id(token_payload) ==
    LET user_id == Get(token_payload, "sub", JNull)
    IN  IF ~Truthy(user_id) THEN Http(401) ELSE Ret(user_id)

authIdle == UNCHANGED <<consumerVars, normVars, producerVars, chunkVars, edgeVars, catVars>>

\* Security(bearer_scheme) finds no bearer credentials: verify_token is not run
BearerRejects ==
    /\ ares = Pending
    /\ areq.token = "missing"
    /\ \E status \in BearerMissingStatus : ares' = Http(status)
    /\ UNCHANGED <<areq, jwks_cache, ures>>
    /\ authIdle

CallVerifyToken ==
    /\ ares = Pending
    /\ areq.token # "missing"
    /\ ares' = verify_token(areq.token, jwks_cache, areq.fetch)
    /\ jwks_cache' = get_jwks(jwks_cache, areq.fetch).cache
    /\ UNCHANGED <<areq, ures>>
    /\ authIdle

\* Depends(verify_token) returned the payload
CallGetCurrentUserId ==
    /\ ares.k = "ret"
    /\ ures = Pending
    /\ ures' = get_current_user_id(ares.v)
    /\ UNCHANGED <<areq, jwks_cache, ares>>
    /\ authIdle

InitAuth ==
    /\ proc = "markets"
    /\ log = [t \in AllTopics |-> <<>>]
    /\ committed = [t \in AllTopics |-> 0]
    /\ pending = [t \in AllTopics |-> 0]
    /\ position = [t \in AllTopics |-> 0]
    /\ pc = "start"
    /\ running = TRUE
    /\ msg = NoMsg
    /\ raw = JNull
    /\ normalized = RetNone
    /\ chunks = <<>>
    /\ exc = "none"
    /\ markets = <<>>
    /\ upsertCount = [t \in AllTopics |-> [i \in 1..Len(log[t]) |-> 0]]
    /\ lastUpsert = NoUpsert
    /\ storeCalls = {}
    /\ failed = {}
    /\ article_chunks = <<>>
    /\ restarts = 0
    /\ nplatform = "none"
    /\ nraw = JNull
    /\ nres = Idle
    /\ producerOff
    /\ chunkOff
    /\ edgeOff
    /\ catOff
    /\ areq \in [token : TokenKinds, fetch : JwksOutcomes]
    /\ jwks_cache \in {"None", "keys"}
    /\ ares = Pending
    /\ ures = Pending

NextAuth ==
    \/ BearerRejects
    \/ CallVerifyToken
    \/ CallGetCurrentUserId

SpecAuth == InitAuth /\ [][NextAuth]_vars

----------------------------------------------------------------------------
(* The while loop of chunk_text, one iteration per step, for a chunk_size  *)
(* the caller chooses.  cres holds the locals of the call while it runs.   *)

\* the loop runs at most MaxIter times in the model
MaxIter == 4

\* chunk sizes a caller can pass: below, at and above the overlap, and the
\* default
ChunkSizes == {1, 199, 200, 201, 1000, CHUNK_SIZE}

\* lines 71-73: the locals before the loop
Looping(chunk_size, start, acc) ==
    [k |-> "loop", size |-> chunk_size, start |-> start, v |-> acc]

\* line 77: start += chunk_size - overlap
NextStart(start, chunk_size) == start + chunk_size - 200

\* lines 74-77: one iteration of the loop
ChunkIter ==
    /\ cres.k = "loop"
    /\ cres.start < ctext
    /\ Len(cres.v) < MaxIter
    /\ cres' = Looping(cres.size,
                       NextStart(cres.start, cres.size),
                       Append(cres.v, [start |-> cres.start,
                                       end   |-> Min(cres.start + cres.size, ctext)]))
    /\ UNCHANGED ctext
    /\ UNCHANGED <<consumerVars, normVars, producerVars, edgeVars, authVars, catVars>>

\* lines 74, 78: the loop condition is false, return chunks
ChunkReturn ==
    /\ cres.k = "loop"
    /\ ~(cres.start < ctext)
    /\ cres' = [k |-> "ret", size |-> cres.size, v |-> cres.v]
    /\ UNCHANGED ctext
    /\ UNCHANGED <<consumerVars, normVars, producerVars, edgeVars, authVars, catVars>>

InitChunkLoop ==
    /\ proc = "news"
    /\ log = [t \in AllTopics |-> <<>>]
    /\ committed = [t \in AllTopics |-> 0]
    /\ pending = [t \in AllTopics |-> 0]
    /\ position = [t \in AllTopics |-> 0]
    /\ pc = "start"
    /\ running = TRUE
    /\ msg = NoMsg
    /\ raw = JNull
    /\ normalized = RetNone
    /\ chunks = <<>>
    /\ exc = "none"
    /\ markets = <<>>
    /\ upsertCount = [t \in AllTopics |-> [i \in 1..Len(log[t]) |-> 0]]
    /\ lastUpsert = NoUpsert
    /\ storeCalls = {}
    /\ failed = {}
    /\ article_chunks = <<>>
    /\ restarts = 0
    /\ nplatform = "none"
    /\ nraw = JNull
    /\ nres = Idle
    /\ producerOff
    /\ edgeOff
    /\ authOff
    /\ catOff
    /\ ctext \in 0..MaxTextLen
    /\ \E chunk_size \in ChunkSizes : cres = Looping(chunk_size, 0, <<>>)

NextChunkLoop ==
    \/ ChunkIter
    \/ ChunkReturn

SpecChunkLoop == InitChunkLoop /\ [][NextChunkLoop]_vars

----------------------------------------------------------------------------
(* model/scripts/scrapeAllCategories.py and listCategories.py: the cached  *)
(* series lookup get_category, which is the same function in both tools.   *)
(* A ticker is the sequence of its parts between "-", each part a sequence *)
(* of characters; the empty string has one empty part.                     *)

\* the requests of a run of the tool the model follows
MaxLookups == 4

EmptyStr == <<<<>>>>
NONE == <<<<"(", "n", "o", "n", "e", ")">>>>          \* the string "(none)"

\* Python: c.isdigit() for one character
isdigit(c) == c \in {"0", "1", "2", "3", "4", "5", "6", "7", "8", "9"}

\* lines 64-67: the parts before the first one that begins with two digits
RECURSIVE SeriesParts(_)
SeriesParts(parts) ==
    IF parts = <<>> THEN <<>>
    ELSE LET part == Head(parts)
         IN  IF Len(part) >= 2 /\ isdigit(part[1]) /\ isdigit(part[2]) THEN <<>>
             ELSE <<part>> \o SeriesParts(Tail(parts))

\* lines 58-68
extract_series_ticker(event_ticker) ==
    IF event_ticker = EmptyStr THEN EmptyStr
    ELSE IF SeriesParts(event_ticker) # <<>> THEN SeriesParts(event_ticker)
    ELSE <<event_ticker[1]>>

\* the event tickers of the markets a run meets: "", "KXA-24JAN", "KXA-25",
\* "KXB", "24JAN-X" and "-24"
EventTickers ==
    { EmptyStr,
      <<<<"K", "X", "A">>, <<"2", "4", "J", "A", "N">>>>,
      <<<<"K", "X", "A">>, <<"2", "5">>>>,
      <<<<"K", "X", "B">>>>,
      <<<<"2", "4", "J", "A", "N">>, <<"X">>>>,
      <<<<>>, <<"2", "4">>>> }

Categories == {<<<<"P", "o", "l", "i", "t", "i", "c", "s">>>>, <<<<"S", "p", "o", "r", "t", "s">>>>}

\* what GET /series/{ticker} does: 200 with a category, 200 with a body
\* that has no "series", 200 with "series": null, another status, or the
\* request (or the decoding of its body) raising
SeriesOutcomes ==
    [k : {"category"}, cat : Categories]
    \cup {[k |-> "no_series"], [k |-> "null_series"], [k |-> "status"], [k |-> "raises"]}

\* lines 78-86: the category a lookup yields
CategoryOf(o) ==
    CASE o.k = "category"    -> o.cat
      [] o.k = "no_series"   -> NONE      \* .get("series", {}).get("category", "(none)")
      [] o.k = "null_series" -> NONE      \* None.get raises AttributeError, caught
      [] o.k = "status"      -> NONE      \* resp.status_code != 200
      [] o.k = "raises"      -> NONE      \* except Exception

\* line 87: _series_cache[series_ticker] = cat
CacheAfter_success_only(cache, series_ticker, cat) ==
    IF cat = NONE THEN cache
    ELSE [s \in DOMAIN cache \cup {series_ticker} |->
              IF s = series_ticker THEN cat ELSE cache[s]]

CacheAfter(cache, series_ticker, cat) ==
    [s \in DOMAIN cache \cup {series_ticker} |->
        IF s = series_ticker THEN cat ELSE cache[s]]

CatRet(event_ticker, series_ticker, cat, requested) ==
    [k |-> "ret", event |-> event_ticker, series |-> series_ticker, cat |-> cat,
     requested |-> requested]

\* lines 71-88: one call of get_category
CallGetCategory ==
    /\ \E event_ticker \in EventTickers, o \in SeriesOutcomes :
          LET series_ticker == extract_series_ticker(event_ticker)
          IN  IF series_ticker = EmptyStr
              THEN /\ cret' = CatRet(event_ticker, series_ticker, NONE, FALSE)
                   /\ UNCHANGED <<series_cache, lookups>>
              ELSE IF series_ticker \in DOMAIN series_cache
              THEN /\ cret' = CatRet(event_ticker, series_ticker,
                                     series_cache[series_ticker], FALSE)
                   /\ UNCHANGED <<series_cache, lookups>>
              ELSE /\ Len(lookups) < MaxLookups
                   /\ lookups' = Append(lookups, [series |-> series_ticker, outcome |-> o])
                   /\ series_cache' = CacheAfter(series_cache, series_ticker, CategoryOf(o))
                   /\ cret' = CatRet(event_ticker, series_ticker, CategoryOf(o), TRUE)
    /\ UNCHANGED <<consumerVars, normVars, producerVars, chunkVars, edgeVars, authVars>>

InitCat ==
    /\ proc = "markets"
    /\ log = [t \in AllTopics |-> <<>>]
    /\ committed = [t \in AllTopics |-> 0]
    /\ pending = [t \in AllTopics |-> 0]
    /\ position = [t \in AllTopics |-> 0]
    /\ pc = "start"
    /\ running = TRUE
    /\ msg = NoMsg
    /\ raw = JNull
    /\ normalized = RetNone
    /\ chunks = <<>>
    /\ exc = "none"
    /\ markets = <<>>
    /\ upsertCount = [t \in AllTopics |-> [i \in 1..Len(log[t]) |-> 0]]
    /\ lastUpsert = NoUpsert
    /\ storeCalls = {}
    /\ failed = {}
    /\ article_chunks = <<>>
    /\ restarts = 0
    /\ nplatform = "none"
    /\ nraw = JNull
    /\ nres = Idle
    /\ producerOff
    /\ chunkOff
    /\ edgeOff
    /\ authOff
    /\ series_cache = <<>>
    /\ lookups = <<>>
    /\ cret = Pending

NextCat == CallGetCategory

SpecCat == InitCat /\ [][NextCat]_vars

----------------------------------------------------------------------------
(* Properties *)

TypeOK == pc \in {"start", "loop", "poll", "error", "decode", "normalize", "upsert", "skipcommit",
                  "commit", "process", "embed", "closed", "down"}

\* the normalizer run() applies to a message of the topic
NormOf(topic, j) ==
    IF topic = "kalshi.markets" THEN normalize_kalshi(j) ELSE normalize_polymarket(j)

\* the payload decodes and normalizes to a record
Accepted(topic, payload) ==
    /\ payload.k = "json"
    /\ NormOf(topic, payload.j).k = "ret"

\* the payload decodes and the normalizer rejects it
Rejected(topic, payload) ==
    /\ payload.k = "json"
    /\ NormOf(topic, payload.j).k = "none"

\* a commit covering offset o of topic t has been issued (sent or applied)
CommitIssued(t, o) == committed[t] > o \/ pending[t] > o

\* upsert_market has been called and has returned for message o of topic t
UpsertDone(t, o) == upsertCount[t][o + 1] > 0

\* a step of run() itself that is not the death of the process
RunStep == pc' # pc /\ pc' # "down"

\* C1: in the markets consumer no commit covering a message that decodes and
\* normalizes to a record is issued or applied before upsert_market has been
\* called and has returned for that message.
C1_CommitOnlyAfterUpsert ==
    proc = "markets" =>
        \A t \in TOPICS : \A o \in 0..(Len(log[t]) - 1) :
            (CommitIssued(t, o) /\ Accepted(t, log[t][o + 1])) => UpsertDone(t, o)

C1_Witness ==
    /\ proc = "markets"
    /\ committed["kalshi.markets"] > 0
    /\ Accepted("kalshi.markets", log["kalshi.markets"][1])
    /\ UpsertDone("kalshi.markets", 0)

C3_DecodeFailureSkipped ==
    [][ /\ (pc = "decode" /\ Payload(msg).k = "bytes" /\ RunStep) =>
              /\ pc' = IF proc = "markets" THEN "skipcommit" ELSE "commit"
              /\ UNCHANGED <<markets, upsertCount, lastUpsert, storeCalls, chunks, raw,
                             normalized, exc>>
        /\ ( /\ pc \in {"skipcommit", "commit"}
             /\ Payload(msg).k = "bytes"
             /\ RunStep ) =>
              /\ UNCHANGED <<markets, upsertCount, lastUpsert, storeCalls, chunks>>
              /\ \/ pc' = "loop" /\ pending'[msg.topic] = msg.offset + 1 /\ exc' = "none"
                 \/ pc' = "closed" /\ exc' = "KafkaException"
      ]_vars

C3_Witness ==
    /\ pc = "poll"
    /\ restarts = 0
    /\ \E t \in Subscribed(proc) :
          /\ position[t] > 0
          /\ log[t][position[t]].k = "bytes"
          /\ committed[t] = position[t]

\* C4: no message that is undecodable, or valid JSON of an unexpected shape,
\* or without its natural identifier, ends run(): a consumer that has closed
\* while handling such a message closed for a transport error or a shutdown.
C4_MalformedInputNeverTerminates ==
    (pc = "closed" /\ msg # NoMsg /\ Payload(msg).k \in {"bytes", "json"})
        => exc \in {"none", "KafkaException"}

\* C5: after upsert_market(m) has been called, once or twice, the markets
\* table holds exactly one row with m's external_id, and that row is m.
C5_UpsertIdempotentOneRow ==
    lastUpsert # NoUpsert =>
        LET rows == {r \in 1..Len(lastUpsert.after) :
                        lastUpsert.after[r].external_id = lastUpsert.rec.external_id}
        IN  /\ Cardinality(rows) = 1
            /\ \A r \in rows : lastUpsert.after[r] = lastUpsert.rec

\* the external_ids of the records handed to upsert_market so far
UpsertedIds ==
    {NormOf(p[1], log[p[1]][p[2]].j).v.external_id :
        p \in {q \in TOPICS \X (1..MaxLog) :
                  q[2] <= Len(log[q[1]]) /\ upsertCount[q[1]][q[2]] > 0}}

\* C6: the markets table holds exactly one row per distinct external_id that
\* was normalized and handed to upsert_market, whatever was republished or
\* redelivered.
C6_OneRowPerExternalId ==
    /\ Len(markets) = Cardinality(UpsertedIds)
    /\ \A id \in UpsertedIds :
          Cardinality({r \in 1..Len(markets) : markets[r].external_id = id}) = 1

\* C7: normalize_kalshi and normalize_polymarket return a record or None for
\* every decoded JSON value and never let an exception escape.
C7_NormalizersTotal == nres.k \in {"idle", "pending", "ret", "none"}

\* the payload is an object without its platform's native identifier
LacksNativeId(platform, j) ==
    /\ j.t = "obj"
    /\ IF platform = "kalshi" THEN "ticker" \notin DOMAIN j.o
       ELSE "conditionId" \notin DOMAIN j.o /\ "id" \notin DOMAIN j.o

\* C8: a payload without its platform's native identifier (Kalshi: ticker;
\* Polymarket: conditionId and id) produces no normalized record.
C8_MissingIdProducesNoRecord ==
    (nres.k \notin {"idle", "pending"} /\ LacksNativeId(nplatform, nraw)) => nres.k # "ret"

\* C9: the yes_price of every record a normalizer returns lies in [0, 1].
C9_YesPriceInUnitInterval ==
    nres.k = "ret" =>
        /\ 0 <= nres.v.yes_price.num
        /\ nres.v.yes_price.num <= nres.v.yes_price.den

\* C10: when the normalizer rejects the payload of a message, run() goes to
\* the commit without calling upsert_market, the markets table is unchanged,
\* and the commit of that message's offset is issued before the next poll;
\* only the commit call itself raising ends run().
C10_RejectionSkipsUpsert ==
    [][ proc = "markets" =>
        /\ (pc = "normalize" /\ Rejected(msg.topic, Payload(msg)) /\ RunStep) =>
              /\ pc' = "commit"
              /\ UNCHANGED <<markets, upsertCount, exc>>
        /\ (pc = "commit" /\ Rejected(msg.topic, Payload(msg)) /\ RunStep) =>
              /\ UNCHANGED <<markets, upsertCount>>
              /\ \/ pc' = "loop" /\ pending'[msg.topic] = msg.offset + 1 /\ exc' = "none"
                 \/ pc' = "closed" /\ exc' = "KafkaException"
      ]_vars

C10_Witness ==
    /\ proc = "markets"
    /\ pc = "poll"
    /\ restarts = 0
    /\ markets = <<>>
    /\ \E t \in TOPICS :
          /\ position[t] > 0
          /\ Rejected(t, log[t][position[t]])
          /\ committed[t] = position[t]
          /\ ~UpsertDone(t, position[t] - 1)

\* at the head of an iteration every message fetched so far had its commit
\* requested; the request of partition t is lost when neither the unsettled
\* request nor the broker's committed offset covers the fetch position
CommitLost(t) == pending[t] < position[t] /\ committed[t] < position[t]

\* C11: once the commit of a message's offset has failed, the consumer
\* fetches no further message: run() does not go from poll() to the handling
\* of a new message while a commit request of a subscribed partition is lost.
C11_CommitFailureTerminates ==
    [][ (pc = "poll" /\ pc' = "decode") =>
            \A t \in Subscribed(proc) : ~CommitLost(t) ]_vars

\* C12: once handle_signal has cleared the flag, the head of the loop starts
\* no poll (so at most the poll already begun completes); the message being
\* handled goes on through its upsert to the sending of its commit; run()
\* closes without an exception only from the head of the loop, with no
\* message in hand; and the process eventually ends.
C12_SignalShutdown ==
    /\ [][ /\ (~running /\ pc = "loop" /\ pc' # pc) =>
                 /\ pc' \in {"closed", "down"}
                 /\ pc' = "closed" => exc' = "none"
           /\ (~running /\ pc = "upsert" /\ RunStep) =>
                 /\ pc' = "commit"
                 /\ upsertCount'[msg.topic][msg.offset + 1] = upsertCount[msg.topic][msg.offset + 1] + 1
           /\ (~running /\ pc \in {"commit", "skipcommit"} /\ RunStep) =>
                 \/ pc' = "loop" /\ pending'[msg.topic] = msg.offset + 1
                 \/ pc' = "closed" /\ exc' = "KafkaException"
           /\ (pc # "closed" /\ pc' = "closed" /\ exc' = "none") =>
                 pc = "loop" /\ ~running /\ msg = NoMsg
         ]_vars
    /\ (~running ~> pc \in {"closed", "down"})

C12_Witness ==
    /\ ~running
    /\ restarts = 0
    /\ pc = "commit"
    /\ proc = "markets"
    /\ UpsertDone(msg.topic, msg.offset)
    /\ ~CommitIssued(msg.topic, msg.offset)

\* C13: the partition never takes, for a key, a record produced before the
\* record of that key it already holds: the updates of one market reach the
\* log, and so the consumer's upserts, in publish order, retries included.
C13_PublishOrderPreserved ==
    [][ (adapter = "kalshi" \/ adapter = "polymarket") =>
            (\A k \in DOMAIN plog : plog'[k].seq >= plog[k].seq) ]_vars

\* C14: when a producer begins a poll cycle, no record produced in an
\* earlier cycle is still unacknowledged in its queue.
C14_FlushedBeforeNextCycle ==
    (ppc = "fetch" /\ qi = 1) => queue = <<>>

Transient == {"timeout", "500", "429"}

\* a step of run() at its fetch, as opposed to a signal or a broker step
FetchStep ==
    /\ ppc = "fetch"
    /\ pdeath' # "signal"
    /\ <<ppc, qi, cycle, pdeath>>' # <<ppc, qi, cycle, pdeath>>

\* C15: a fetch that fails with a timeout, a 5xx or a 429 does not end the
\* producer and publishes nothing: run() goes to the sleep of its poll
\* interval (news: to its next query, the failed one being polled again
\* after the interval), and from that sleep to the next fetch.
C15_TransientFetchFailureTolerated ==
    [][ /\ (FetchStep /\ lastFetch' \in Transient) =>
              /\ pdeath' = "none"
              /\ UNCHANGED <<queue, plog, nproduced>>
              /\ batch' = <<>>
              /\ \/ ppc' = "sleep" /\ sleepFor' = POLL_INTERVAL_SECONDS(adapter)
                 \/ adapter = "news" /\ ppc' = "fetch" /\ qi' = qi + 1
        /\ (ppc = "sleep" /\ ppc' \notin {"sleep", "dead"}) => ppc' = "fetch"
      ]_vars

C15_Witness ==
    /\ adapter = "kalshi"
    /\ feed = <<"A">>
    /\ cycle = 2
    /\ lastFetch \in Transient
    /\ ppc = "sleep"
    /\ nproduced = 0
    /\ pdeath = "none"

\* the platform's native identifier of a record, as a set: empty when the
\* record has none
NativeIds(a, v) ==
    CASE a = "kalshi" ->
            IF "ticker" \in DOMAIN v.o THEN {v.o["ticker"]} ELSE {}
      [] a = "polymarket" ->
            IF "conditionId" \in DOMAIN v.o THEN {Str(v.o["conditionId"])}
            ELSE IF "id" \in DOMAIN v.o THEN {Str(v.o["id"])} ELSE {}
      [] a = "news" ->
            IF "url" \in DOMAIN v.o THEN {v.o["url"]} ELSE {}

\* C16: the key of every record a producer has produced is the record's
\* native identifier (Kalshi ticker; Polymarket conditionId, else id; news
\* url).
C16_KeyIsNativeId ==
    \A i \in 1..Len(queue) : queue[i].key \in NativeIds(adapter, queue[i].value)

\* C17: the sleep a producer takes after a fetch answered with HTTP 429 is
\* not its regular poll interval.
C17_BackoffOn429 ==
    (ppc = "sleep" /\ lastFetch = "429") => sleepFor # POLL_INTERVAL_SECONDS(adapter)

\* C18: a producer ended by a shutdown signal has produced every record of
\* the batch it had fetched and holds no unacknowledged record.
C18_SignalCompletesBatch ==
    pdeath = "signal" => (batch = <<>> /\ queue = <<>>)

\* C19: a producer whose fetch failed on a malformed base URL has
\* terminated; it is not sleeping or polling again.
C19_ConfigFailureIsFatal ==
    lastFetch = "badurl" => ppc = "dead"

ChunkLen(c) == c.end - c.start

\* C20: chunk_text returns its chunks in text order, each of at most
\* CHUNK_SIZE characters, and the last 200 characters of every chunk are the
\* first 200 characters of the next one, except possibly for the pair that
\* ends in the final chunk.
C20_ChunksOverlap ==
    cres.k = "ret" =>
        LET c == cres.v
        IN  /\ \A i \in 1..Len(c) :
                  /\ 0 <= c[i].start /\ c[i].start < c[i].end /\ c[i].end <= ctext
                  /\ ChunkLen(c[i]) <= CHUNK_SIZE
            /\ \A i \in 1..(Len(c) - 1) : c[i].start < c[i + 1].start
            /\ \A i \in 1..(Len(c) - 2) :
                  /\ ChunkLen(c[i]) >= 200
                  /\ ChunkLen(c[i + 1]) >= 200
                  /\ c[i].end - 200 = c[i + 1].start

C20_Witness ==
    /\ cres.k = "ret"
    /\ Len(cres.v) = 3
    /\ ChunkLen(cres.v[3]) < 200
    /\ cres.v[1].end - 200 = cres.v[2].start

ChunkLens(c) == [i \in 1..Len(c) |-> ChunkLen(c[i])]

\* C21 as stated: a 4500-character text gives three chunks of 2000, 2000
\* and 500 characters; every chunk but the last has exactly CHUNK_SIZE
\* characters, and all pairs but the last share 200 characters.
C21_LengthsAsStated ==
    cres.k = "ret" =>
        LET c == cres.v
        IN  /\ ctext = 4500 => ChunkLens(c) = <<2000, 2000, 500>>
            /\ \A i \in 1..(Len(c) - 1) : ChunkLen(c[i]) = CHUNK_SIZE
            /\ \A i \in 1..(Len(c) - 2) : c[i].end - 200 = c[i + 1].start

\* C21 (amended): a 4500-character text gives three chunks of 2000, 2000
\* and 900 characters (the third starts 200 characters before the end of
\* the second); every chunk followed by at least two more has exactly
\* CHUNK_SIZE characters, the next-to-last one is shorter only when the
\* last chunk has fewer than 200 characters, and all pairs but the last
\* share 200 characters.
C21_ChunkLengths ==
    cres.k = "ret" =>
        LET c == cres.v
        IN  /\ ctext = 4500 => ChunkLens(c) = <<2000, 2000, 900>>
            /\ \A i \in 1..(Len(c) - 2) : ChunkLen(c[i]) = CHUNK_SIZE
            /\ Len(c) >= 2 =>
                  \/ ChunkLen(c[Len(c) - 1]) = CHUNK_SIZE
                  \/ ChunkLen(c[Len(c)]) < 200
            /\ \A i \in 1..(Len(c) - 2) : c[i].end - 200 = c[i + 1].start

C21_Witness ==
    /\ ctext = 4500
    /\ cres.k = "ret"
    /\ Len(cres.v) = 3
    /\ ChunkLen(cres.v[3]) = 900

\* the chunks of the article in hand that the loop of process_article has
\* gone through
ChunksDone ==
    LET full == ProcessPrelude(raw).chunks
    IN  SubSeq(full, 1, Len(full) - Len(chunks))

StoredNow(c) ==
    [offset |-> msg.offset, url |-> Get(raw, "url", JStr(<<>>)), chunk |-> c] \in storeCalls

InProcessArticle ==
    /\ proc = "news"
    /\ pc \in {"embed", "commit"}
    /\ ProcessPrelude(raw).k = "chunks"

\* C22: a failure of the embedding provider on one chunk never leaves
\* process_article as an exception, and every chunk the loop has gone
\* through was handed to store_chunk unless its own embedding failed: at
\* the return of process_article only the failed chunks are missing.
C22_EmbedFailureSkipsOnlyThatChunk ==
    /\ exc \notin ProviderFailures
    /\ InProcessArticle =>
          \A i \in 1..Len(ChunksDone) :
              ChunksDone[i] \in failed \/ StoredNow(ChunksDone[i])

C22_Witness ==
    /\ InProcessArticle
    /\ pc = "commit"
    /\ \E i, j \in 1..Len(ChunksDone) :
          /\ i < j
          /\ ChunksDone[i] \in failed
          /\ ChunksDone[j] \notin failed
          /\ StoredNow(ChunksDone[j])

\* C23: the offset of an article message is committed only when every
\* chunk of that article has been embedded and handed to store_chunk.
C23_CommitOnlyAfterEmbedAndStore ==
    \A o \in 0..(Len(log[TOPIC]) - 1) :
        LET d == Decode(log[TOPIC][o + 1])
        IN  (CommitIssued(TOPIC, o) /\ d.ok /\ ProcessPrelude(d.v).k = "chunks") =>
                \A i \in 1..Len(ProcessPrelude(d.v).chunks) :
                    [offset |-> o, url |-> Get(d.v, "url", JStr(<<>>)),
                     chunk |-> ProcessPrelude(d.v).chunks[i]] \in storeCalls

\* the rows of the article_chunks table for one chunk of one article
ChunkRows(url, c) ==
    {i \in 1..Len(article_chunks) :
        article_chunks[i].url = url /\ article_chunks[i].chunk = c}

\* C24: however often an article has been processed, the index holds
\* exactly one row for each of its chunks that was embedded and stored.
C24_OneRowPerUrlAndChunk ==
    \A call \in storeCalls : Cardinality(ChunkRows(call.url, call.chunk)) = 1

\* C25: no user is notified twice of the same Edge, whatever the
\* dispatcher goes through (crash and redelivery of the event included).
C25_AtMostOneNotificationPerEdgeAndUser ==
    \A x \in DOMAIN sent : sent[x] <= 1

RowsOf(m, y, p) ==
    {i \in 1..Len(edges) :
        /\ edges[i].market_id = m
        /\ edges[i].market_probability = y
        /\ edges[i].model_probability = p}

\* C26: every Edge row has abs(model_probability - market_probability) of
\* at least 0.05; the market and estimate last detected on have a row
\* exactly when their magnitude is at or above 0.05 (0.05 itself included,
\* 0.03 not); and a row enters the table with alert_sent = false.
C26_EdgeExactlyAtOrAboveFloor ==
    /\ [](/\ \A i \in 1..Len(edges) :
               Abs(edges[i].model_probability - edges[i].market_probability) >= 5
          /\ lastDetect # NoDetect =>
               (RowsOf(lastDetect[1], lastDetect[2], lastDetect[3]) # {}
                   <=> Abs(lastDetect[3] - lastDetect[2]) >= 5))
    /\ [][\A i \in (Len(edges) + 1)..Len(edges') : ~edges'[i].alert_sent]_vars

C26_Witness ==
    /\ lastDetect = <<1, 45, 48>>
    /\ RowsOf(1, 45, 48) = {}
    /\ RowsOf(1, 45, 50) # {}

\* C27: no two rows of the edges table have the same market_id,
\* market_probability and model_probability.
C27_NoDuplicateEdge ==
    \A i, j \in 1..Len(edges) :
        (/\ edges[i].market_id = edges[j].market_id
         /\ edges[i].market_probability = edges[j].market_probability
         /\ edges[i].model_probability = edges[j].model_probability) => i = j

C27_Witness ==
    /\ Len(edges) = 2
    /\ edges[1].market_id = edges[2].market_id
    /\ lastDetect = <<edges[1].market_id, edges[1].market_probability,
                      edges[1].model_probability>>

KeysUnavailable == jwks_cache = "None" /\ areq.fetch # "ok"

\* C29: a request whose token is missing, expired or invalid, or for which
\* the signing keys cannot be obtained, is answered with 401; verify_token
\* returns the payload only for a token that passes every check; and
\* get_current_user_id returns the sub claim, or answers 401 without one.
C29_AnyFailureIs401 ==
    /\ ares.k \notin {"idle", "pending"} =>
          /\ (areq.token \notin ValidTokens \/ KeysUnavailable) => ares = Http(401)
          /\ ares.k = "ret" => areq.token \in ValidTokens /\ ares.v = PayloadOf(areq.token)
    /\ ures.k \notin {"idle", "pending"} =>
          ures = IF areq.token = "valid" THEN Ret(JStr(<<"u">>)) ELSE Http(401)

\* the payload is an object that carries no price: a Kalshi market with
\* neither yes_bid nor yes_ask, a Polymarket market without outcomePrices
LacksPrice(platform, j) ==
    /\ j.t = "obj"
    /\ IF platform = "kalshi"
       THEN "yes_bid" \notin DOMAIN j.o /\ "yes_ask" \notin DOMAIN j.o
       ELSE "outcomePrices" \notin DOMAIN j.o

\* nothing but the price is missing: the native identifier is a string and
\* the volume, if any, is a number
SoundButForPrice(platform, j) ==
    /\ LacksPrice(platform, j)
    /\ ~LacksNativeId(platform, j)
    /\ IF platform = "kalshi"
       THEN j.o["ticker"].t = "str"
       ELSE /\ Get(j, "conditionId", Get(j, "id", JNull)).t = "str"
            /\ ToFloat(Get(j, "volume", JInt(0))).ok

\* C30: a payload that carries no price is not rejected, and the yes_price
\* of its record is null, not a number.
C30_MissingPriceIsNull ==
    (nres.k \notin {"idle", "pending"} /\ SoundButForPrice(nplatform, nraw)) =>
        /\ nres.k = "ret"
        /\ nres.v.yes_price = JNull

\* C31: a polled PARTITION_EOF event leads to no upsert, no embedding or
\* storing and no commit, and the loop goes on; a polled event carrying any
\* other error commits nothing, is raised as KafkaException, leaves the
\* loop and closes the consumer.
C31_PollErrorHandling ==
    [][ /\ (pc = "poll" /\ IsError(msg')) =>
              /\ pc' = "error"
              /\ UNCHANGED <<committed, pending, position, markets, upsertCount,
                             lastUpsert, storeCalls, article_chunks, exc>>
        /\ (pc = "error" /\ RunStep) =>
              /\ UNCHANGED <<committed, pending, position, markets, upsertCount,
                             lastUpsert, storeCalls, article_chunks>>
              /\ IF msg.error = PARTITION_EOF
                    THEN pc' = "loop" /\ exc' = exc
                    ELSE pc' = "closed" /\ exc' = "KafkaException"
      ]_vars

\* a consumer closed by a polled error before it took any message of a
\* log that holds one
C31_Witness ==
    /\ pc = "closed"
    /\ exc = "KafkaException"
    /\ \A t \in AllTopics : position[t] = 0 /\ pending[t] = 0
    /\ \E t \in Subscribed(proc) : Len(log[t]) > 0

\* C32: for every record a market producer has produced and the normalizer
\* accepts, the external_id of the normalized record is the key the
\* producer gave the record.
C32_ExternalIdIsPartitionKey ==
    adapter \in {"kalshi", "polymarket"} =>
        \A i \in 1..Len(queue) :
            LET n == NormOf(IF adapter = "kalshi" THEN "kalshi.markets"
                            ELSE "polymarket.markets", queue[i].value)
            IN  n.k = "ret" => n.v.external_id = queue[i].key

\* the chunk is the beginning of the text and holds the whole title, which
\* is the text's first FmtLen(title) characters
BeginsWithTitle(c, title) == c.start = 0 /\ c.end >= FmtLen(title)

\* C33: every chunk produced for an article, and every chunk handed to
\* store_chunk, begins with the article's title.
C33_EveryChunkBeginsWithTitle ==
    (proc = "news" /\ pc = "embed") =>
        /\ \A i \in 1..Len(chunks) :
              BeginsWithTitle(chunks[i], Get(raw, "title", JStr(<<>>)))
        /\ \A s \in storeCalls :
              s.offset = msg.offset =>
                  BeginsWithTitle(s.chunk, Get(raw, "title", JStr(<<>>)))

\* C34: in chunk_text the start index strictly increases on each iteration
\* of the loop, for every text and every positive chunk_size, and for the
\* default chunk_size the call returns ceil(len(text) / 1800) chunks, none
\* for the empty text.
C34_StartIncreasesAndCount ==
    /\ [][(cres.k = "loop" /\ cres'.k = "loop") => cres'.start > cres.start]_vars
    /\ []((cres.k = "ret" /\ cres.size = CHUNK_SIZE) =>
              Len(cres.v) = (ctext + 1799) \div 1800)

\* Python: chunk[200:], empty when the chunk has at most 200 characters
Strip200(c) == [start |-> Min(c.start + 200, c.end), end |-> c.end]

\* the concatenation of pieces of the text, as the intervals of the text it
\* is made of: an empty piece adds nothing, and a piece that begins where
\* the one before it ends continues it
RECURSIVE Joined(_, _)
Joined(acc, pieces) ==
    IF pieces = <<>> THEN acc
    ELSE LET p == Head(pieces)
         IN  IF p.start = p.end THEN Joined(acc, Tail(pieces))
             ELSE IF acc # <<>> /\ acc[Len(acc)].end = p.start
             THEN Joined([acc EXCEPT ![Len(acc)].end = p.end], Tail(pieces))
             ELSE Joined(Append(acc, p), Tail(pieces))

\* the first chunk followed by every later chunk without its first 200
\* characters
Reassemble(cs) ==
    IF cs = <<>> THEN <<>>
    ELSE Joined(<<>>, <<cs[1]>> \o [i \in 1..(Len(cs) - 1) |-> Strip200(cs[i + 1])])

\* the text of n characters, as intervals
WholeText(n) == IF n = 0 THEN <<>> ELSE <<[start |-> 0, end |-> n]>>

\* C35: for the default size and overlap, the first chunk of chunk_text
\* followed by every later chunk stripped of its first 200 characters is
\* the original text, for every text length.
C35_ChunksReassembleText ==
    cres.k = "ret" => Reassemble(cres.v) = WholeText(ctext)

\* a text whose second and last chunk is shorter than the overlap, so that
\* stripping leaves nothing of it
C35_Witness ==
    /\ cres.k = "ret"
    /\ Len(cres.v) = 2
    /\ ChunkLen(cres.v[2]) < 200
    /\ Strip200(cres.v[2]).start = Strip200(cres.v[2]).end
    /\ Reassemble(cres.v) = WholeText(ctext)

\* a step of the news producer in which the fetch of a query, or the
\* publishing of one of its articles, fails
QueryFails ==
    /\ adapter = "news"
    /\ pdeath' # "signal"
    /\ \/ ppc = "fetch" /\ lastFetch' # lastFetch /\ lastFetch' # "ok"
       \/ ppc = "fetch" /\ lastFetch' = lastFetch /\ lastFetch # "ok" /\ ppc' # "produce"
                        /\ <<ppc, qi, cycle>>' # <<ppc, qi, cycle>>
       \/ ppc = "produce" /\ batch # <<>> /\ ~KeyOf(adapter, Head(batch)).ok
                          /\ <<ppc, qi, batch>>' # <<ppc, qi, batch>>

\* C36: in the news producer a failure while fetching or publishing one
\* query leaves the producer alive and takes it to the fetch of the next
\* query of the cycle (after the last query, to the sleep of the poll
\* interval), and whenever the fetch of a later query of a cycle begins,
\* every record produced for the queries before it has been flushed.
C36_QueryFailureIsolatedAndFlushed ==
    /\ [][QueryFails =>
            /\ pdeath' = "none"
            /\ IF qi < NumQueries
                  THEN ppc' = "fetch" /\ qi' = qi + 1
                  ELSE ppc' = "sleep" /\ qi' = 1]_vars
    /\ []((adapter = "news" /\ ppc = "fetch" /\ qi > 1) => queue = <<>>)

\* C37: within one run get_category makes at most one request per series
\* ticker; once a series was looked up, whether the lookup succeeded or
\* failed, every later call for that series makes no request and returns
\* the category that lookup yielded, which is the cached one; and no entry
\* of the cache is ever changed or removed.
C37_OneLookupPerSeries ==
    /\ [](\A i, j \in 1..Len(lookups) :
              lookups[i].series = lookups[j].series => i = j)
    /\ [][ /\ \A s \in DOMAIN series_cache :
                 s \in DOMAIN series_cache' /\ series_cache'[s] = series_cache[s]
           /\ \A i \in 1..Len(lookups) :
                 (cret'.k = "ret" /\ cret'.series = lookups[i].series) =>
                     /\ ~cret'.requested
                     /\ lookups' = lookups
                     /\ cret'.cat = CategoryOf(lookups[i].outcome)
                     /\ cret'.cat = series_cache[cret'.series]
         ]_vars

\* a later call for a series whose one lookup
\* failed: it is answered "(none)" from the cache, without a request
C37_Witness ==
    /\ cret.k = "ret"
    /\ ~cret.requested
    /\ cret.cat = NONE
    /\ \E i \in 1..Len(lookups) :
          /\ lookups[i].series = cret.series
          /\ lookups[i].outcome.k = "raises"
    /\ Len(lookups) >= 2
    /\ cret.series \in DOMAIN series_cache

====
